---- MODULE Spec2Model ----
\* Model of Copper-Rock/safe-controls-refinement.mjs: the pointer interaction
\* state machine installed by installSafeControlsRefinement, its pure helper
\* functions, and the event targets it subscribes to.
\*
\* Numbers are fixed point: distances in 1/1000 of a world unit, angles in
\* milliradians, clientY in pixels.  Thresholds of the source that lie below
\* that resolution (1e-8, 1e-12) compare against zero.  The camera is kept as
\* the spherical offset from controls.target (radius, polar angle), which is
\* what handlePointerMove and handleDoubleClick compute and write back.
EXTENDS Integers, FiniteSets, Sequences, TLC

\* ---------------------------------------------------------------- bounds
MaxPointerId == 2
MaxButton == 3
MaxTouchCount == 3
MaxCoord == 1
MaxPoints == 3

\* ------------------------------------------------------------- constants
\* activeMousePointerId / shiftTilt.pointerId "null", and an event that
\* carries no pointerId (undefined); real pointer ids are 1..MaxPointerId.
Null == -1
Undefined == 0

MODE_NONE == "none"
MODE_PAN == "pan"
MODE_PINCH == "pinch"
MODE_ORBIT == "orbit"
MODE_DOLLY == "dolly"
MODE_TILT == "tilt"
MODE_OTHER == "other"
INTERACTION_MODE == {MODE_NONE, MODE_PAN, MODE_PINCH, MODE_ORBIT, MODE_DOLLY, MODE_TILT, MODE_OTHER}

\* the button-code table handed to install (MOUSE.PAN, MOUSE.ROTATE)
MOUSE == [PAN |-> "MOUSE.PAN", DOLLY |-> "MOUSE.DOLLY", ROTATE |-> "MOUSE.ROTATE"]

\* computeTiltAngleFromDrag defaults, in milliradians
RadiansPerPixel == 5
MaxStep == 100
\* computeZoomedCameraDistance default zoomFactor = 0.72, in percent
ZoomFactorPct == 72
\* Math.PI in milliradians
PiMilli == 3142
\* the value that stands for every number Number.isFinite rejects
NonFinite == -1000000000

\* --------------------------------------------------------------- inputs
PointerIds == 1..MaxPointerId
\* the mouse is one pointer; touch and pen contacts take every id
MouseIds == {1}
PointerTypes == {"mouse", "touch", "pen"}
Buttons == 0..MaxButton
ClientYs == {100, 112}

\* makePointerEvent: the fields a test does not set keep these defaults
DefaultEvent ==
    [pointerId |-> 1, pointerType |-> "mouse", button |-> 0,
     altKey |-> FALSE, shiftKey |-> FALSE, clientY |-> 0]

\* Pointer-down events (desktop ones with a button, modifiers and a position;
\* touch and pen contacts), pointer-move events (a position), pointer-up and
\* pointer-cancel events (the released button; possibly without a pointerId)
\* and double-clicks (a pointer type), over the given ids, types, buttons and
\* positions.
DownEventsOver(mouseIds, touchIds, types, buttons, ys) ==
    {[DefaultEvent EXCEPT !.pointerId = i, !.button = b, !.altKey = a,
                          !.shiftKey = s, !.clientY = y] :
        i \in mouseIds, b \in buttons, a \in BOOLEAN, s \in BOOLEAN, y \in ys}
    \cup {[DefaultEvent EXCEPT !.pointerId = i, !.pointerType = t] :
        i \in touchIds, t \in types \ {"mouse"}}
MoveEventsOver(ids, types, ys) ==
    {[DefaultEvent EXCEPT !.pointerId = i, !.pointerType = t, !.clientY = y] :
        i \in ids \cup {Undefined}, t \in types, y \in ys}
UpEventsOver(ids, types, buttons) ==
    {[DefaultEvent EXCEPT !.pointerId = i, !.pointerType = t, !.button = b] :
        i \in ids \cup {Undefined}, t \in types, b \in buttons}
ClickEventsOver(types) ==
    {[DefaultEvent EXCEPT !.pointerType = t] : t \in types}

DownEvents == DownEventsOver(MouseIds, PointerIds, PointerTypes, Buttons, ClientYs)
MoveEvents == MoveEventsOver(PointerIds, PointerTypes, ClientYs)
UpEvents == UpEventsOver(PointerIds, PointerTypes, Buttons)
ClickEvents == ClickEventsOver(PointerTypes)

\* the fields of the install configuration; the first six are required
RequiredDeps == {"windowTarget", "domElement", "controls", "camera", "MOUSE", "Vector3"}
OptionalDeps == {"lotEditState", "onUserNavigate"}
AllDeps == RequiredDeps \cup OptionalDeps

VARIABLES
    phase,          \* "uninstalled", "installed", "failed" (install threw), "cleaned"
    deps,           \* the set of configuration fields that are present
    state,          \* the PointerState record of the install call
    controls,       \* the externally owned controller
    camera,         \* the externally owned camera (offset from controls.target)
    lotEditActive,  \* lotEditState.active
    listeners,      \* the subscriptions held by windowTarget and domElement
    lastEvent,      \* the event dispatched last and what its handler did to it
    pending,        \* history: (pointerId, pointerType) pairs down and not yet up
    call            \* the exported pure function applied last: arguments and result

vars == <<phase, deps, state, controls, camera, lotEditActive, listeners, lastEvent,
          pending, call>>

\* ------------------------------------------------------- pure functions
isDesktopPointer(pointerType) == pointerType # "touch" /\ pointerType # "pen"

resolveLeftMouseAction(event) == IF event.altKey THEN "rotate" ELSE "pan"

\* variant: alt is looked at before shift
classifyPointerInteraction_altBeforeShift(pointerType, button, altKey, shiftKey, activeTouchCount) ==
    IF ~isDesktopPointer(pointerType)
    THEN (IF activeTouchCount >= 2 THEN MODE_PINCH ELSE MODE_PAN)
    ELSE IF button = 0 /\ altKey THEN MODE_ORBIT
    ELSE IF button = 0 /\ shiftKey THEN MODE_TILT
    ELSE IF button = 0 THEN MODE_PAN
    ELSE IF button = 1 THEN MODE_DOLLY
    ELSE IF button = 2 THEN MODE_ORBIT
    ELSE MODE_OTHER

classifyPointerInteraction(pointerType, button, altKey, shiftKey, activeTouchCount) ==
    IF ~isDesktopPointer(pointerType)
    THEN (IF activeTouchCount >= 2 THEN MODE_PINCH ELSE MODE_PAN)
    ELSE IF button = 0 /\ shiftKey THEN MODE_TILT
    ELSE IF button = 0 /\ altKey THEN MODE_ORBIT
    ELSE IF button = 0 THEN MODE_PAN
    ELSE IF button = 1 THEN MODE_DOLLY
    ELSE IF button = 2 THEN MODE_ORBIT
    ELSE MODE_OTHER

Min(a, b) == IF a < b THEN a ELSE b
Max(a, b) == IF a > b THEN a ELSE b
Abs(a) == IF a < 0 THEN -a ELSE a

clamp(value, minValue, maxValue) == Min(Max(value, minValue), maxValue)

\* Number.isFinite: a number that is not finite (undefined, NaN, an
\* infinity) is the one value NonFinite, which no arithmetic produces
IsFinite(x) == x # NonFinite

\* variant: the distance goes to the upper end of the range
computeZoomedCameraDistance_toUpperBound(currentDistance, minDistance, maxDistance) ==
    IF ~IsFinite(currentDistance) \/ currentDistance <= 0 THEN currentDistance
    ELSE LET lower == IF IsFinite(minDistance) THEN minDistance ELSE 0
         IN  IF IsFinite(maxDistance) THEN Max(lower, maxDistance) ELSE currentDistance

computeZoomedCameraDistance(currentDistance, minDistance, maxDistance) ==
    IF ~IsFinite(currentDistance) \/ currentDistance <= 0 THEN currentDistance
    ELSE LET lower == IF IsFinite(minDistance) THEN minDistance ELSE 0
             nextDistance == (currentDistance * ZoomFactorPct) \div 100
         IN  IF IsFinite(maxDistance)
             THEN clamp(nextDistance, lower, Max(lower, maxDistance))
             ELSE Max(nextDistance, lower)

\* variant: the angle is clamped from above only, and never negative
computeTiltAngleFromDragWith_oneSided(deltaY, radiansPerPixel, maxStep) ==
    IF ~IsFinite(deltaY) \/ ~IsFinite(radiansPerPixel) \/ radiansPerPixel = 0 THEN 0
    ELSE clamp(deltaY * radiansPerPixel, 0, maxStep)

\* computeTiltAngleFromDrag with its options given
computeTiltAngleFromDragWith(deltaY, radiansPerPixel, maxStep) ==
    IF ~IsFinite(deltaY) \/ ~IsFinite(radiansPerPixel) \/ radiansPerPixel = 0 THEN 0
    ELSE clamp(deltaY * radiansPerPixel, -maxStep, maxStep)

\* computeTiltAngleFromDrag with the default options
computeTiltAngleFromDrag(deltaY) ==
    computeTiltAngleFromDragWith(deltaY, RadiansPerPixel, MaxStep)

\* -x of a number that may be not finite
Negated(x) == IF IsFinite(x) THEN -x ELSE NonFinite

\* variant: a pinch translates the camera as a pan does
shouldTranslateCameraForTargetDelta_pinchToo(userInteracting, interactionMode, deltaLength, epsilon) ==
    /\ userInteracting
    /\ interactionMode \in {MODE_PAN, MODE_PINCH}
    /\ IsFinite(deltaLength)
    /\ deltaLength > epsilon

shouldTranslateCameraForTargetDelta(userInteracting, interactionMode, deltaLength, epsilon) ==
    /\ userInteracting
    /\ interactionMode = MODE_PAN
    /\ IsFinite(deltaLength)
    /\ deltaLength > epsilon

\* a - b and a + b of numbers that may be not finite
Minus(a, b) == IF IsFinite(a) /\ IsFinite(b) THEN a - b ELSE NonFinite
Plus(a, b) == IF IsFinite(a) /\ IsFinite(b) THEN a + b ELSE NonFinite

\* Math.hypot, rounded up to the resolution: the comparison with a threshold
\* on the grid is the comparison of the exact root with it
hypot(x, y, z) ==
    IF IsFinite(x) /\ IsFinite(y) /\ IsFinite(z)
    THEN LET n == x * x + y * y + z * z
         IN  CHOOSE r \in 0..n : r * r >= n /\ (r = 0 \/ (r - 1) * (r - 1) < n)
    ELSE NonFinite

applyPanTranslation(prevCamera, prevTarget, nextTarget, userInteracting, interactionMode, epsilon) ==
    LET delta == [x |-> Minus(nextTarget.x, prevTarget.x),
                  y |-> Minus(nextTarget.y, prevTarget.y),
                  z |-> Minus(nextTarget.z, prevTarget.z)]
        deltaLength == hypot(delta.x, delta.y, delta.z)
        shouldTranslate ==
            shouldTranslateCameraForTargetDelta(userInteracting, interactionMode,
                                                deltaLength, epsilon)
    IN  [delta |-> delta,
         deltaLength |-> deltaLength,
         shouldTranslate |-> shouldTranslate,
         nextCamera |-> IF ~shouldTranslate
                        THEN [x |-> prevCamera.x, y |-> prevCamera.y, z |-> prevCamera.z]
                        ELSE [x |-> Plus(prevCamera.x, delta.x),
                              y |-> Plus(prevCamera.y, delta.y),
                              z |-> Plus(prevCamera.z, delta.z)]]

\* an argument or a record that the caller did not pass (undefined)
Absent == [absent |-> TRUE]

\* applyPanTranslation reads nextTarget.x and prevTarget.x before anything
\* else, and prevCamera.x when it translates: reading a field of undefined
\* throws.  { ...undefined } is the empty record.
applyPanTranslationThrows(prevCamera, prevTarget, nextTarget, userInteracting, interactionMode, epsilon) ==
    \/ nextTarget = Absent
    \/ prevTarget = Absent
    \/ /\ prevCamera = Absent
       /\ shouldTranslateCameraForTargetDelta(
              userInteracting, interactionMode,
              hypot(Minus(nextTarget.x, prevTarget.x), Minus(nextTarget.y, prevTarget.y),
                    Minus(nextTarget.z, prevTarget.z)),
              epsilon)

\* ---------------------------------------------------------- point sampler
\* Half-float bit layout.
HALF_FLOAT_SIGN_MASK == 32768
HALF_FLOAT_EXPONENT_MASK == 31744
HALF_FLOAT_FRACTION_MASK == 1023
HALF_FLOAT_EXPONENT_SHIFT == 10
HALF_FLOAT_MAX_EXPONENT == 31
DEFAULT_TARGET_SAMPLE_COUNT == 18000

\* Decoded values are counted in units of 2^-24, the smallest subnormal
\* half-float, so that every finite half-float is an integer; infinities
\* and NaN are NonFinite.  value & 0xffff is value modulo 2^16.
decodeFloat16(value) ==
    IF ~IsFinite(value) THEN NonFinite
    ELSE LET bits == value % (2 * HALF_FLOAT_SIGN_MASK)
             sign == IF bits >= HALF_FLOAT_SIGN_MASK THEN -1 ELSE 1
             exponent == (bits % HALF_FLOAT_SIGN_MASK) \div (2 ^ HALF_FLOAT_EXPONENT_SHIFT)
             fraction == bits % (HALF_FLOAT_FRACTION_MASK + 1)
         IN  IF exponent = 0 THEN sign * fraction
             ELSE IF exponent = HALF_FLOAT_MAX_EXPONENT THEN NonFinite
             ELSE sign * (2 ^ (exponent - 1)) * (HALF_FLOAT_FRACTION_MASK + 1 + fraction)

\* null
NoResult == [none |-> TRUE]

\* an array-like with these entries
ArrayOf(items) == [items |-> items]

\* pointCount and targetSampleCount are counted in halves, so that the
\* model has counts that are not integers: Math.floor is division by 2.
CountScale == 2
Floor(halves) == halves \div CountScale
CeilDiv(a, b) == (a + b - 1) \div b

\* The loop of sampleCpuPointsForFocus from pointIndex on: the (-x, -y, z)
\* of every visited point whose three decoded values are finite.  An
\* infinite stride leaves the range after the first point.
RECURSIVE writtenSamples(_, _, _, _)
writtenSamples(cpuPoints, pointIndex, stride, sourcePointCount) ==
    IF pointIndex >= sourcePointCount THEN <<>>
    ELSE LET sourceOffset == pointIndex * 3
             x == Negated(decodeFloat16(cpuPoints[sourceOffset + 1]))
             y == Negated(decodeFloat16(cpuPoints[sourceOffset + 2]))
             z == decodeFloat16(cpuPoints[sourceOffset + 3])
             rest == IF IsFinite(stride)
                     THEN writtenSamples(cpuPoints, pointIndex + stride, stride, sourcePointCount)
                     ELSE <<>>
         IN  IF ~IsFinite(x) \/ ~IsFinite(y) \/ ~IsFinite(z) THEN rest
             ELSE <<x, y, z>> \o rest

\* sourcePointCount / 0 is Infinity, and so are its ceiling and the
\* stride; sourcePointCount / Infinity is 0.  Writes past the end of the
\* typed array are dropped and slice cannot lengthen it, so the samples
\* returned are the written ones cut to the allocated length.
sampleCpuPointsForFocus(cpuPoints, pointCount, targetSampleCount) ==
    IF cpuPoints = Absent THEN NoResult
    ELSE IF Len(cpuPoints.items) < 3 THEN NoResult
    ELSE LET availablePointCount == Len(cpuPoints.items) \div 3
             requestedPointCount == IF IsFinite(pointCount) THEN Max(0, Floor(pointCount))
                                    ELSE availablePointCount
             sourcePointCount == Min(requestedPointCount, availablePointCount)
             normalizedTargetSampleCount ==
                 IF IsFinite(targetSampleCount) /\ targetSampleCount > 0
                 THEN Floor(targetSampleCount)
                 ELSE DEFAULT_TARGET_SAMPLE_COUNT
             stride == IF normalizedTargetSampleCount = 0 THEN NonFinite
                       ELSE Max(1, CeilDiv(sourcePointCount, normalizedTargetSampleCount))
             estimatedSampledPointCount ==
                 IF IsFinite(stride) THEN CeilDiv(sourcePointCount, stride) ELSE 0
             written == writtenSamples(cpuPoints.items, 0, stride, sourcePointCount)
             samples == SubSeq(written, 1, Min(Len(written), estimatedSampledPointCount * 3))
         IN  IF sourcePointCount = 0 THEN NoResult
             ELSE IF Len(written) = 0 THEN NoResult
             ELSE [samples |-> samples,
                   stride |-> stride,
                   sourcePointCount |-> sourcePointCount,
                   sampledPointCount |-> Len(samples) \div 3]

\* ------------------------------------------------------------ ray picking
\* Sample and origin coordinates are counted in units of 1e-6, so squared
\* distances are in units of 1e-12 and the tie tolerance 1e-12 is 1.
\* Direction components are whole numbers, for which a length above 1e-12
\* is a length above 0.
TieTolerance == 1
DirectionEpsilon == 0

\* samples[k] of the array, undefined past its end (1-based here)
EntryAt(items, k) == IF k <= Len(items) THEN items[k] ELSE NonFinite

\* One pass of the loop of findClosestSampleToRay over the sample at offset,
\* from the best so far.  A sample with a component that is not finite has
\* NaN for its distanceSq (or a projection of -Infinity): it is skipped or
\* fails both comparisons, and never becomes the best.
visitSample(best, items, offset, origin, direction, distanceSqLimit) ==
    LET pointX == EntryAt(items, offset + 1)
        pointY == EntryAt(items, offset + 2)
        pointZ == EntryAt(items, offset + 3)
        toPointX == pointX - origin.x
        toPointY == pointY - origin.y
        toPointZ == pointZ - origin.z
        rayDistance == toPointX * direction.x + toPointY * direction.y + toPointZ * direction.z
        deltaX == pointX - (origin.x + direction.x * rayDistance)
        deltaY == pointY - (origin.y + direction.y * rayDistance)
        deltaZ == pointZ - (origin.z + direction.z * rayDistance)
        distanceSq == deltaX * deltaX + deltaY * deltaY + deltaZ * deltaZ
    IN  IF ~IsFinite(pointX) \/ ~IsFinite(pointY) \/ ~IsFinite(pointZ) THEN best
        ELSE IF rayDistance <= 0 THEN best
        ELSE IF IsFinite(distanceSqLimit) /\ distanceSq > distanceSqLimit THEN best
        ELSE IF \/ best.offset < 0
                \/ distanceSq < best.distanceSq
                \/ /\ Abs(distanceSq - best.distanceSq) <= TieTolerance
                   /\ rayDistance < best.rayDistance
        THEN [offset |-> offset, distanceSq |-> distanceSq, rayDistance |-> rayDistance]
        ELSE best

RECURSIVE closestFrom(_, _, _, _, _, _)
closestFrom(best, items, offset, origin, direction, distanceSqLimit) ==
    IF offset >= Len(items) THEN best
    ELSE closestFrom(visitSample(best, items, offset, origin, direction, distanceSqLimit),
                     items, offset + 3, origin, direction, distanceSqLimit)

\* A direction with a NaN component has a NaN length and gives null at
\* once; one with an infinite component normalises to NaN components and
\* gives null after the loop: both are the NonFinite length here.  The
\* directions of the inputs lie along an axis, so the division by the
\* length is exact.  A negative or not finite maxDistanceSq is no limit.
findClosestSampleToRay(samples, rayOrigin, rayDirection, maxDistanceSq) ==
    IF samples = Absent \/ rayOrigin = Absent \/ rayDirection = Absent THEN NoResult
    ELSE IF Len(samples.items) < 3 THEN NoResult
    ELSE LET directionLength == hypot(rayDirection.x, rayDirection.y, rayDirection.z)
         IN  IF ~IsFinite(directionLength) \/ ~(directionLength > DirectionEpsilon) THEN NoResult
             ELSE IF ~IsFinite(rayOrigin.x) \/ ~IsFinite(rayOrigin.y) \/ ~IsFinite(rayOrigin.z)
             THEN NoResult
             ELSE LET direction == [x |-> rayDirection.x \div directionLength,
                                    y |-> rayDirection.y \div directionLength,
                                    z |-> rayDirection.z \div directionLength]
                      distanceSqLimit == IF IsFinite(maxDistanceSq) /\ maxDistanceSq >= 0
                                         THEN maxDistanceSq ELSE NonFinite
                      best == closestFrom([offset |-> -1, distanceSq |-> NonFinite,
                                           rayDistance |-> NonFinite],
                                          samples.items, 0, rayOrigin, direction,
                                          distanceSqLimit)
                  IN  IF best.offset < 0 THEN NoResult
                      ELSE [sampleOffset |-> best.offset,
                            x |-> samples.items[best.offset + 1],
                            y |-> samples.items[best.offset + 2],
                            z |-> samples.items[best.offset + 3],
                            distanceSq |-> best.distanceSq,
                            rayDistance |-> best.rayDistance]

\* ------------------------------------------------ install-local closures
InitialPointerState ==
    [interactionMode |-> MODE_NONE,
     touchPointerIds |-> {},
     activeMousePointerId |-> Null,
     shiftTilt |-> [active |-> FALSE, pointerId |-> Null, lastClientY |-> 0]]

\* what a handler did to the event object and to the recording collaborators
NoEffects ==
    [defaultPrevented |-> FALSE, propagationStopped |-> FALSE,
     rotateUpCalls |-> <<>>, updateCalls |-> 0, navigateCalls |-> 0]

emitUserNavigate(fx, hasCallback) ==
    IF hasCallback THEN [fx EXCEPT !.navigateCalls = @ + 1] ELSE fx

\* variant: the left button is bound to pan whatever the modifiers
setLeftMouseBinding_ignoresAlt(c, event) == [c EXCEPT !.LEFT = MOUSE.PAN]

setLeftMouseBinding(c, event) ==
    [c EXCEPT !.LEFT = IF resolveLeftMouseAction(event) = "rotate"
                       THEN MOUSE.ROTATE ELSE MOUSE.PAN]

resetLeftMouseBinding(c) == [c EXCEPT !.LEFT = MOUSE.PAN]

\* variant: the mode is not reset when the last contact is lifted
updateTouchInteractionMode_noReset(s) ==
    IF Cardinality(s.touchPointerIds) >= 2
    THEN [s EXCEPT !.interactionMode = MODE_PINCH]
    ELSE IF Cardinality(s.touchPointerIds) = 1
    THEN [s EXCEPT !.interactionMode = MODE_PAN]
    ELSE s

updateTouchInteractionMode(s) ==
    IF Cardinality(s.touchPointerIds) >= 2
    THEN [s EXCEPT !.interactionMode = MODE_PINCH]
    ELSE [s EXCEPT !.interactionMode =
              IF Cardinality(s.touchPointerIds) = 1 THEN MODE_PAN ELSE MODE_NONE]

\* variant: the controller is re-enabled even when the pointer id does not
\* match the recorded tilt pointer
endShiftTilt_enablesOnMismatch(s, c, pointerId) ==
    IF ~s.shiftTilt.active THEN [state |-> s, controls |-> c]
    ELSE IF pointerId # Undefined /\ pointerId # Null /\ pointerId # s.shiftTilt.pointerId
    THEN [state |-> s, controls |-> [c EXCEPT !.enabled = TRUE]]
    ELSE [state |-> [s EXCEPT !.shiftTilt.active = FALSE, !.shiftTilt.pointerId = Null],
          controls |-> [c EXCEPT !.enabled = TRUE]]

\* variant: the tilt ends whatever the pointer id
endShiftTilt_ignoresPointerId(s, c, pointerId) ==
    IF ~s.shiftTilt.active THEN [state |-> s, controls |-> c]
    ELSE [state |-> [s EXCEPT !.shiftTilt.active = FALSE, !.shiftTilt.pointerId = Null],
          controls |-> [c EXCEPT !.enabled = TRUE]]

\* pointerId = Undefined is the call without an argument
endShiftTilt(s, c, pointerId) ==
    IF ~s.shiftTilt.active THEN [state |-> s, controls |-> c]
    ELSE IF pointerId # Undefined /\ pointerId # Null /\ pointerId # s.shiftTilt.pointerId
    THEN [state |-> s, controls |-> c]
    ELSE [state |-> [s EXCEPT !.shiftTilt.active = FALSE, !.shiftTilt.pointerId = Null],
          controls |-> [c EXCEPT !.enabled = TRUE]]

\* Every handler maps (state, controls, camera) and the event to the new
\* (state, controls, camera) and the effects on the event.
Outcome(s, c, cam, fx) == [state |-> s, controls |-> c, camera |-> cam, fx |-> fx]

\* variant: entering the tilt does not stop the propagation of the event
handlePointerDown_tiltPropagates(s, c, cam, editActive, event) ==
    IF editActive THEN Outcome(s, c, cam, NoEffects)
    ELSE IF ~isDesktopPointer(event.pointerType)
    THEN Outcome(updateTouchInteractionMode(
                     [s EXCEPT !.touchPointerIds = @ \cup {event.pointerId}]),
                 c, cam, NoEffects)
    ELSE LET mode == classifyPointerInteraction(event.pointerType, event.button,
                                                event.altKey, event.shiftKey, 0)
             s1 == [s EXCEPT !.interactionMode = mode]
             s2 == IF event.button = 0
                   THEN [s1 EXCEPT !.activeMousePointerId = event.pointerId]
                   ELSE s1
             c2 == IF event.button = 0 THEN setLeftMouseBinding(c, event) ELSE c
         IN  IF s2.interactionMode = MODE_TILT
             THEN Outcome([s2 EXCEPT !.shiftTilt = [active |-> TRUE,
                                                    pointerId |-> event.pointerId,
                                                    lastClientY |-> event.clientY]],
                          [c2 EXCEPT !.enabled = FALSE],
                          cam,
                          [NoEffects EXCEPT !.defaultPrevented = TRUE])
             ELSE Outcome(s2, c2, cam, NoEffects)

\* variant: a touch contact is recorded without re-deriving the mode
handlePointerDown_touchKeepsMode(s, c, cam, editActive, event) ==
    IF editActive THEN Outcome(s, c, cam, NoEffects)
    ELSE IF ~isDesktopPointer(event.pointerType)
    THEN Outcome([s EXCEPT !.touchPointerIds = @ \cup {event.pointerId}], c, cam, NoEffects)
    ELSE LET mode == classifyPointerInteraction(event.pointerType, event.button,
                                                event.altKey, event.shiftKey, 0)
             s1 == [s EXCEPT !.interactionMode = mode]
             s2 == IF event.button = 0
                   THEN [s1 EXCEPT !.activeMousePointerId = event.pointerId]
                   ELSE s1
             c2 == IF event.button = 0 THEN setLeftMouseBinding(c, event) ELSE c
         IN  IF s2.interactionMode = MODE_TILT
             THEN Outcome([s2 EXCEPT !.shiftTilt = [active |-> TRUE,
                                                    pointerId |-> event.pointerId,
                                                    lastClientY |-> event.clientY]],
                          [c2 EXCEPT !.enabled = FALSE],
                          cam,
                          [NoEffects EXCEPT !.defaultPrevented = TRUE,
                                            !.propagationStopped = TRUE])
             ELSE Outcome(s2, c2, cam, NoEffects)

handlePointerDown(s, c, cam, editActive, event) ==
    IF editActive THEN Outcome(s, c, cam, NoEffects)
    ELSE IF ~isDesktopPointer(event.pointerType)
    THEN Outcome(updateTouchInteractionMode(
                     [s EXCEPT !.touchPointerIds = @ \cup {event.pointerId}]),
                 c, cam, NoEffects)
    ELSE LET mode == classifyPointerInteraction(event.pointerType, event.button,
                                                event.altKey, event.shiftKey, 0)
             s1 == [s EXCEPT !.interactionMode = mode]
             s2 == IF event.button = 0
                   THEN [s1 EXCEPT !.activeMousePointerId = event.pointerId]
                   ELSE s1
             c2 == IF event.button = 0 THEN setLeftMouseBinding(c, event) ELSE c
         IN  IF s2.interactionMode = MODE_TILT
             THEN Outcome([s2 EXCEPT !.shiftTilt = [active |-> TRUE,
                                                    pointerId |-> event.pointerId,
                                                    lastClientY |-> event.clientY]],
                          [c2 EXCEPT !.enabled = FALSE],
                          cam,
                          [NoEffects EXCEPT !.defaultPrevented = TRUE,
                                            !.propagationStopped = TRUE])
             ELSE Outcome(s2, c2, cam, NoEffects)

\* The camera is its offset from the target in spherical coordinates, and
\* the handlers read the azimuth back from the rebuilt offset as
\* atan2(offset.x, offset.z).  Math.sin(0) is 0, so at polar angle 0 the
\* offset is (0, radius, 0) whatever the azimuth it was built with, and
\* atan2(0, 0) is 0.  Math.sin(Math.PI) is not 0, and with the target at
\* the origin the offset at polar angle pi keeps its azimuth.
azimuthOfOffset(polar, azimuth) == IF polar = 0 THEN 0 ELSE azimuth

\* variant: without rotateUp the polar angle is advanced without clamping
handlePointerMove_fallbackUnclamped(s, c, cam, editActive, hasCallback, event) ==
    IF ~s.shiftTilt.active THEN Outcome(s, c, cam, NoEffects)
    ELSE IF event.pointerId # s.shiftTilt.pointerId THEN Outcome(s, c, cam, NoEffects)
    ELSE IF ~isDesktopPointer(event.pointerType) THEN Outcome(s, c, cam, NoEffects)
    ELSE IF editActive THEN Outcome(s, c, cam, NoEffects)
    ELSE LET deltaY == event.clientY - s.shiftTilt.lastClientY
             s1 == [s EXCEPT !.shiftTilt.lastClientY = event.clientY]
             rotateUpAmount == computeTiltAngleFromDrag(deltaY)
             nextPolar == cam.polar + rotateUpAmount
             cam1 == IF ~c.hasRotateUp /\ cam.radius > 0
                     THEN [cam EXCEPT !.polar = nextPolar,
                                      !.azimuth = azimuthOfOffset(nextPolar, @)]
                     ELSE cam
             fx1 == [NoEffects EXCEPT
                        !.rotateUpCalls = IF c.hasRotateUp THEN <<rotateUpAmount>> ELSE <<>>,
                        !.updateCalls = 1,
                        !.defaultPrevented = TRUE]
         IN  IF Abs(rotateUpAmount) <= 0 THEN Outcome(s1, c, cam, NoEffects)
             ELSE Outcome(s1, c, cam1, emitUserNavigate(fx1, hasCallback))

\* variant: the move of any pointer tilts while the tilt is active
handlePointerMove_anyPointer(s, c, cam, editActive, hasCallback, event) ==
    IF ~s.shiftTilt.active THEN Outcome(s, c, cam, NoEffects)
    ELSE IF ~isDesktopPointer(event.pointerType) THEN Outcome(s, c, cam, NoEffects)
    ELSE IF editActive THEN Outcome(s, c, cam, NoEffects)
    ELSE LET deltaY == event.clientY - s.shiftTilt.lastClientY
             s1 == [s EXCEPT !.shiftTilt.lastClientY = event.clientY]
             rotateUpAmount == computeTiltAngleFromDrag(deltaY)
             minPolar == IF IsFinite(c.minPolarAngle) THEN c.minPolarAngle ELSE 0
             maxPolar == IF IsFinite(c.maxPolarAngle) THEN c.maxPolarAngle ELSE PiMilli
             nextPolar == clamp(cam.polar + rotateUpAmount, minPolar, maxPolar)
             cam1 == IF ~c.hasRotateUp /\ cam.radius > 0
                     THEN [cam EXCEPT !.polar = nextPolar,
                                      !.azimuth = azimuthOfOffset(nextPolar, @)]
                     ELSE cam
             fx1 == [NoEffects EXCEPT
                        !.rotateUpCalls = IF c.hasRotateUp THEN <<rotateUpAmount>> ELSE <<>>,
                        !.updateCalls = 1,
                        !.defaultPrevented = TRUE]
         IN  IF Abs(rotateUpAmount) <= 0 THEN Outcome(s1, c, cam, NoEffects)
             ELSE Outcome(s1, c, cam1, emitUserNavigate(fx1, hasCallback))

\* variant: the edit-mode check comes after the position is recorded
handlePointerMove_recordsBeforeEditCheck(s, c, cam, editActive, hasCallback, event) ==
    IF ~s.shiftTilt.active THEN Outcome(s, c, cam, NoEffects)
    ELSE IF event.pointerId # s.shiftTilt.pointerId THEN Outcome(s, c, cam, NoEffects)
    ELSE IF ~isDesktopPointer(event.pointerType) THEN Outcome(s, c, cam, NoEffects)
    ELSE LET deltaY == event.clientY - s.shiftTilt.lastClientY
             s1 == [s EXCEPT !.shiftTilt.lastClientY = event.clientY]
             rotateUpAmount == computeTiltAngleFromDrag(deltaY)
             fx1 == [NoEffects EXCEPT
                        !.rotateUpCalls = IF c.hasRotateUp THEN <<rotateUpAmount>> ELSE <<>>,
                        !.updateCalls = 1,
                        !.defaultPrevented = TRUE]
         IN  IF editActive \/ Abs(rotateUpAmount) <= 0 THEN Outcome(s1, c, cam, NoEffects)
             ELSE Outcome(s1, c, cam, emitUserNavigate(fx1, hasCallback))

handlePointerMove(s, c, cam, editActive, hasCallback, event) ==
    IF ~s.shiftTilt.active THEN Outcome(s, c, cam, NoEffects)
    ELSE IF event.pointerId # s.shiftTilt.pointerId THEN Outcome(s, c, cam, NoEffects)
    ELSE IF ~isDesktopPointer(event.pointerType) THEN Outcome(s, c, cam, NoEffects)
    ELSE IF editActive THEN Outcome(s, c, cam, NoEffects)
    ELSE LET deltaY == event.clientY - s.shiftTilt.lastClientY
             s1 == [s EXCEPT !.shiftTilt.lastClientY = event.clientY]
             rotateUpAmount == computeTiltAngleFromDrag(deltaY)
             minPolar == IF IsFinite(c.minPolarAngle) THEN c.minPolarAngle ELSE 0
             maxPolar == IF IsFinite(c.maxPolarAngle) THEN c.maxPolarAngle ELSE PiMilli
             nextPolar == clamp(cam.polar + rotateUpAmount, minPolar, maxPolar)
             cam1 == IF ~c.hasRotateUp /\ cam.radius > 0
                     THEN [cam EXCEPT !.polar = nextPolar,
                                      !.azimuth = azimuthOfOffset(nextPolar, @)]
                     ELSE cam
             fx1 == [NoEffects EXCEPT
                        !.rotateUpCalls = IF c.hasRotateUp THEN <<rotateUpAmount>> ELSE <<>>,
                        !.updateCalls = 1,
                        !.defaultPrevented = TRUE]
         IN  IF Abs(rotateUpAmount) <= 0 THEN Outcome(s1, c, cam, NoEffects)
             ELSE Outcome(s1, c, cam1, emitUserNavigate(fx1, hasCallback))

\* variant: a lifted touch contact stays in the set
handlePointerUpOrCancel_keepsTouch(s, c, cam, event) ==
    IF ~isDesktopPointer(event.pointerType)
    THEN Outcome(updateTouchInteractionMode(s), c, cam, NoEffects)
    ELSE LET ended == endShiftTilt(s, c, event.pointerId)
             release == event.pointerId = ended.state.activeMousePointerId \/ event.button = 0
         IN  Outcome([(IF release THEN [ended.state EXCEPT !.activeMousePointerId = Null]
                                  ELSE ended.state) EXCEPT !.interactionMode = MODE_NONE],
                     IF release THEN resetLeftMouseBinding(ended.controls) ELSE ended.controls,
                     cam, NoEffects)

\* variant: the mouse gesture is released by the button alone
handlePointerUpOrCancel_releaseByButtonOnly(s, c, cam, event) ==
    IF ~isDesktopPointer(event.pointerType)
    THEN Outcome(updateTouchInteractionMode(
                     [s EXCEPT !.touchPointerIds = @ \ {event.pointerId}]),
                 c, cam, NoEffects)
    ELSE LET ended == endShiftTilt(s, c, event.pointerId)
             release == event.button = 0
         IN  Outcome([(IF release THEN [ended.state EXCEPT !.activeMousePointerId = Null]
                                  ELSE ended.state) EXCEPT !.interactionMode = MODE_NONE],
                     IF release THEN resetLeftMouseBinding(ended.controls) ELSE ended.controls,
                     cam, NoEffects)

\* variant: the desktop path does not set the mode back to NONE
handlePointerUpOrCancel_keepsMode(s, c, cam, event) ==
    IF ~isDesktopPointer(event.pointerType)
    THEN Outcome(updateTouchInteractionMode(
                     [s EXCEPT !.touchPointerIds = @ \ {event.pointerId}]),
                 c, cam, NoEffects)
    ELSE LET ended == endShiftTilt(s, c, event.pointerId)
             release == event.pointerId = ended.state.activeMousePointerId \/ event.button = 0
         IN  Outcome(IF release THEN [ended.state EXCEPT !.activeMousePointerId = Null]
                                ELSE ended.state,
                     IF release THEN resetLeftMouseBinding(ended.controls) ELSE ended.controls,
                     cam, NoEffects)

handlePointerUpOrCancel(s, c, cam, event) ==
    IF ~isDesktopPointer(event.pointerType)
    THEN Outcome(updateTouchInteractionMode(
                     [s EXCEPT !.touchPointerIds = @ \ {event.pointerId}]),
                 c, cam, NoEffects)
    ELSE LET ended == endShiftTilt(s, c, event.pointerId)
             s1 == ended.state
             c1 == ended.controls
             release == event.pointerId = s1.activeMousePointerId \/ event.button = 0
             s2 == IF release THEN [s1 EXCEPT !.activeMousePointerId = Null] ELSE s1
             c2 == IF release THEN resetLeftMouseBinding(c1) ELSE c1
         IN  Outcome([s2 EXCEPT !.interactionMode = MODE_NONE], c2, cam, NoEffects)

\* variant: the touch ids are not cleared
handleWindowBlur_keepsTouches(s, c, cam) ==
    LET ended == endShiftTilt(s, c, Undefined)
    IN  Outcome([ended.state EXCEPT !.activeMousePointerId = Null,
                                    !.interactionMode = MODE_NONE],
                resetLeftMouseBinding(ended.controls), cam, NoEffects)

\* variant: the left binding is not reset
handleWindowBlur_keepsBinding(s, c, cam) ==
    LET ended == endShiftTilt([s EXCEPT !.touchPointerIds = {}], c, Undefined)
    IN  Outcome([ended.state EXCEPT !.activeMousePointerId = Null,
                                    !.interactionMode = MODE_NONE],
                ended.controls, cam, NoEffects)

\* variant: the mode is not set to NONE
handleWindowBlur_keepsMode(s, c, cam) ==
    LET ended == endShiftTilt([s EXCEPT !.touchPointerIds = {}], c, Undefined)
    IN  Outcome([ended.state EXCEPT !.activeMousePointerId = Null],
                resetLeftMouseBinding(ended.controls), cam, NoEffects)

\* variant: the tilt is not ended
handleWindowBlur_keepsTilt(s, c, cam) ==
    Outcome([s EXCEPT !.touchPointerIds = {},
                      !.activeMousePointerId = Null,
                      !.interactionMode = MODE_NONE],
            resetLeftMouseBinding(c), cam, NoEffects)

handleWindowBlur(s, c, cam) ==
    LET ended == endShiftTilt([s EXCEPT !.touchPointerIds = {}], c, Undefined)
    IN  Outcome([ended.state EXCEPT !.activeMousePointerId = Null,
                                    !.interactionMode = MODE_NONE],
                resetLeftMouseBinding(ended.controls), cam, NoEffects)

\* variant: the default is prevented also when the zoom is clamped
handleDoubleClick_preventsWhenClamped(s, c, cam, editActive, hasCallback, event) ==
    IF editActive THEN Outcome(s, c, cam, NoEffects)
    ELSE IF ~isDesktopPointer(event.pointerType) THEN Outcome(s, c, cam, NoEffects)
    ELSE LET currentDistance == cam.radius
             nextDistance == computeZoomedCameraDistance(currentDistance,
                                                         c.minDistance, c.maxDistance)
         IN  IF ~(currentDistance > 0) THEN Outcome(s, c, cam, NoEffects)
             ELSE IF Abs(nextDistance - currentDistance) <= 0
             THEN Outcome(s, c, cam, [NoEffects EXCEPT !.defaultPrevented = TRUE])
             ELSE Outcome(s, c, [cam EXCEPT !.radius = nextDistance],
                          emitUserNavigate([NoEffects EXCEPT !.updateCalls = 1,
                                                             !.defaultPrevented = TRUE],
                                           hasCallback))

handleDoubleClick(s, c, cam, editActive, hasCallback, event) ==
    IF editActive THEN Outcome(s, c, cam, NoEffects)
    ELSE IF ~isDesktopPointer(event.pointerType) THEN Outcome(s, c, cam, NoEffects)
    ELSE LET currentDistance == cam.radius
             nextDistance == computeZoomedCameraDistance(currentDistance,
                                                         c.minDistance, c.maxDistance)
         IN  IF ~(currentDistance > 0) THEN Outcome(s, c, cam, NoEffects)
             ELSE IF Abs(nextDistance - currentDistance) <= 0
             THEN Outcome(s, c, cam, NoEffects)
             ELSE Outcome(s, c, [cam EXCEPT !.radius = nextDistance],
                          emitUserNavigate([NoEffects EXCEPT !.updateCalls = 1,
                                                             !.defaultPrevented = TRUE],
                                           hasCallback))

\* --------------------------------------------------------- event targets
Listener(target, type, handler, capture) ==
    [target |-> target, type |-> type, handler |-> handler, capture |-> capture]

\* FakeEventTarget.addEventListener / removeEventListener: an entry is the
\* handler with its capture flag, and removal needs both to match.
addEventListener(ls, target, type, handler, capture) ==
    ls \cup {Listener(target, type, handler, capture)}

removeEventListener(ls, target, type, handler, capture) ==
    ls \ {Listener(target, type, handler, capture)}

InstalledListeners ==
    LET l1 == addEventListener({}, "domElement", "pointerdown", "handlePointerDown", TRUE)
        l2 == addEventListener(l1, "windowTarget", "pointermove", "handlePointerMove", TRUE)
        l3 == addEventListener(l2, "windowTarget", "pointerup", "handlePointerUpOrCancel", TRUE)
        l4 == addEventListener(l3, "windowTarget", "pointercancel", "handlePointerUpOrCancel", TRUE)
        l5 == addEventListener(l4, "windowTarget", "blur", "handleWindowBlur", FALSE)
    IN  addEventListener(l5, "domElement", "dblclick", "handleDoubleClick", TRUE)

\* variant: the blur listener is removed with the capture flag of the others
cleanup_blurWithCapture(ls) ==
    LET l1 == removeEventListener(ls, "domElement", "pointerdown", "handlePointerDown", TRUE)
        l2 == removeEventListener(l1, "windowTarget", "pointermove", "handlePointerMove", TRUE)
        l3 == removeEventListener(l2, "windowTarget", "pointerup", "handlePointerUpOrCancel", TRUE)
        l4 == removeEventListener(l3, "windowTarget", "pointercancel", "handlePointerUpOrCancel", TRUE)
        l5 == removeEventListener(l4, "windowTarget", "blur", "handleWindowBlur", TRUE)
    IN  removeEventListener(l5, "domElement", "dblclick", "handleDoubleClick", TRUE)

cleanup(ls) ==
    LET l1 == removeEventListener(ls, "domElement", "pointerdown", "handlePointerDown", TRUE)
        l2 == removeEventListener(l1, "windowTarget", "pointermove", "handlePointerMove", TRUE)
        l3 == removeEventListener(l2, "windowTarget", "pointerup", "handlePointerUpOrCancel", TRUE)
        l4 == removeEventListener(l3, "windowTarget", "pointercancel", "handlePointerUpOrCancel", TRUE)
        l5 == removeEventListener(l4, "windowTarget", "blur", "handleWindowBlur", FALSE)
    IN  removeEventListener(l5, "domElement", "dblclick", "handleDoubleClick", TRUE)

\* FakeEventTarget.dispatch: the handlers subscribed to (target, type)
Subscribed(target, type) ==
    {l.handler : l \in {k \in listeners : k.target = target /\ k.type = type}}

\* variant: the guard also demands the optional fields
MissingRequired_demandsOptional(d) == \E f \in AllDeps : f \notin d

\* the guard of installSafeControlsRefinement
MissingRequired(d) == \E f \in RequiredDeps : f \notin d

editModeActive == "lotEditState" \in deps /\ lotEditActive
hasNavigateCallback == "onUserNavigate" \in deps

\* ------------------------------------------------------------------ Init
\* no exported function has been applied
NoCall == [fn |-> "none"]

\* The controller and camera of the test harness (createHarness), with the
\* three.js default left binding; the polar bounds are NonFinite when the
\* controller does not define them.
HarnessControls(rotateUp, minPolar, maxPolar) ==
    [enabled |-> TRUE, LEFT |-> MOUSE.ROTATE,
     minDistance |-> 3600, maxDistance |-> 10000,
     minPolarAngle |-> minPolar, maxPolarAngle |-> maxPolar,
     hasRotateUp |-> rotateUp]

HarnessCamera == [radius |-> 5000, polar |-> 1571, azimuth |-> 0]

InitWith(depSets, ctls, cams, track) ==
    /\ phase = "uninstalled"
    /\ deps \in depSets
    /\ state = InitialPointerState
    /\ controls \in ctls
    /\ camera \in cams
    /\ lotEditActive = FALSE
    /\ listeners = {}
    /\ lastEvent = [kind |-> "none", handled |-> FALSE, fx |-> NoEffects]
    /\ pending = [tracked |-> track, down |-> {}]
    /\ call = NoCall

Init ==
    InitWith({AllDeps}, {HarnessControls(TRUE, NonFinite, NonFinite)}, {HarnessCamera}, FALSE)

\* --------------------------------------------------------------- actions
\* history of the dispatched events, kept only when it is tracked: the
\* (pointerId, pointerType) pairs that went down and have not gone up
PointerWentDown(p, event) ==
    IF p.tracked THEN [p EXCEPT !.down = @ \cup {<<event.pointerId, event.pointerType>>}]
    ELSE p
PointerWentUp(p, event) ==
    IF p.tracked THEN [p EXCEPT !.down = @ \ {<<event.pointerId, event.pointerType>>}]
    ELSE p

Event(kind, handled, fx) == [kind |-> kind, handled |-> handled, fx |-> fx]

Apply(kind, handled, out) ==
    /\ state' = IF handled THEN out.state ELSE state
    /\ controls' = IF handled THEN out.controls ELSE controls
    /\ camera' = IF handled THEN out.camera ELSE camera
    /\ lastEvent' = Event(kind, handled, IF handled THEN out.fx ELSE NoEffects)

Install ==
    /\ phase = "uninstalled"
    /\ IF MissingRequired(deps)
       THEN /\ phase' = "failed"
            /\ UNCHANGED <<state, controls, listeners>>
       ELSE /\ phase' = "installed"
            /\ state' = InitialPointerState
            /\ listeners' = InstalledListeners
            /\ controls' = resetLeftMouseBinding(controls)
    /\ lastEvent' = Event("install", FALSE, NoEffects)
    /\ UNCHANGED <<deps, camera, lotEditActive, pending, call>>

Cleanup ==
    /\ phase \in {"installed", "cleaned"}
    /\ phase' = "cleaned"
    /\ listeners' = cleanup(listeners)
    /\ lastEvent' = Event("cleanup", FALSE, NoEffects)
    /\ UNCHANGED <<deps, state, controls, camera, lotEditActive, pending, call>>

ToggleEditMode ==
    /\ phase \in {"installed", "cleaned"}
    /\ "lotEditState" \in deps
    /\ lotEditActive' = ~lotEditActive
    /\ lastEvent' = Event("editmode", FALSE, NoEffects)
    /\ UNCHANGED <<phase, deps, state, controls, camera, listeners, pending, call>>

DispatchPointerDown(event) ==
    /\ phase \in {"installed", "cleaned"}
    /\ Apply("pointerdown", "handlePointerDown" \in Subscribed("domElement", "pointerdown"),
             handlePointerDown(state, controls, camera, editModeActive, event))
    /\ pending' = PointerWentDown(pending, event)
    /\ UNCHANGED <<phase, deps, lotEditActive, listeners, call>>

DispatchPointerMove(event) ==
    /\ phase \in {"installed", "cleaned"}
    /\ Apply("pointermove", "handlePointerMove" \in Subscribed("windowTarget", "pointermove"),
             handlePointerMove(state, controls, camera, editModeActive,
                               hasNavigateCallback, event))
    /\ UNCHANGED <<phase, deps, lotEditActive, listeners, pending, call>>

DispatchPointerUp(event) ==
    /\ phase \in {"installed", "cleaned"}
    /\ Apply("pointerup", "handlePointerUpOrCancel" \in Subscribed("windowTarget", "pointerup"),
             handlePointerUpOrCancel(state, controls, camera, event))
    /\ pending' = PointerWentUp(pending, event)
    /\ UNCHANGED <<phase, deps, lotEditActive, listeners, call>>

DispatchPointerCancel(event) ==
    /\ phase \in {"installed", "cleaned"}
    /\ Apply("pointercancel",
             "handlePointerUpOrCancel" \in Subscribed("windowTarget", "pointercancel"),
             handlePointerUpOrCancel(state, controls, camera, event))
    /\ pending' = PointerWentUp(pending, event)
    /\ UNCHANGED <<phase, deps, lotEditActive, listeners, call>>

DispatchBlur ==
    /\ phase \in {"installed", "cleaned"}
    /\ Apply("blur", "handleWindowBlur" \in Subscribed("windowTarget", "blur"),
             handleWindowBlur(state, controls, camera))
    /\ UNCHANGED <<phase, deps, lotEditActive, listeners, pending, call>>

DispatchDoubleClick(event) ==
    /\ phase \in {"installed", "cleaned"}
    /\ Apply("dblclick", "handleDoubleClick" \in Subscribed("domElement", "dblclick"),
             handleDoubleClick(state, controls, camera, editModeActive,
                               hasNavigateCallback, event))
    /\ UNCHANGED <<phase, deps, lotEditActive, listeners, pending, call>>

NextOver(downs, moves, ups, clicks) ==
    \/ Install
    \/ Cleanup
    \/ ToggleEditMode
    \/ \E event \in downs : DispatchPointerDown(event)
    \/ \E event \in moves : DispatchPointerMove(event)
    \/ \E event \in ups : DispatchPointerUp(event)
    \/ \E event \in ups : DispatchPointerCancel(event)
    \/ DispatchBlur
    \/ \E event \in clicks : DispatchDoubleClick(event)

Next == NextOver(DownEvents, MoveEvents, UpEvents, ClickEvents)

Spec == Init /\ [][Next]_vars

\* The same machine until cleanup, with the history of pressed pointers
\* tracked: mouse and touch pointers, one position, and a
\* controller whose minDistance is the camera distance.
HistoryTypes == {"mouse", "touch"}
HistoryYs == {100}

InitHistory ==
    InitWith({AllDeps},
             {[HarnessControls(TRUE, NonFinite, NonFinite) EXCEPT !.minDistance = HarnessCamera.radius]},
             {HarnessCamera}, TRUE)

NextHistory ==
    \/ Install
    \/ ToggleEditMode
    \/ \E event \in DownEventsOver(MouseIds, PointerIds, HistoryTypes, Buttons, HistoryYs) :
           DispatchPointerDown(event)
    \/ \E event \in MoveEventsOver(PointerIds, HistoryTypes, HistoryYs) :
           DispatchPointerMove(event)
    \/ \E event \in UpEventsOver(PointerIds, HistoryTypes, Buttons) :
           DispatchPointerUp(event)
    \/ \E event \in UpEventsOver(PointerIds, HistoryTypes, Buttons) :
           DispatchPointerCancel(event)
    \/ DispatchBlur
    \/ \E event \in ClickEventsOver(HistoryTypes) : DispatchDoubleClick(event)

SpecHistory == InitHistory /\ [][NextHistory]_vars

\* Every install configuration (each field present or missing), probed with
\* the events of the test harness: pointer 1, primary button.
ProbeIds == {1}
ProbeButtons == {0}
ProbeYs == {100, 112}

InitInstall ==
    InitWith(SUBSET AllDeps, {HarnessControls(TRUE, NonFinite, NonFinite)}, {HarnessCamera}, FALSE)

NextInstall ==
    NextOver(DownEventsOver(ProbeIds, ProbeIds, HistoryTypes, ProbeButtons, ProbeYs),
             MoveEventsOver(ProbeIds, HistoryTypes, ProbeYs),
             UpEventsOver(ProbeIds, HistoryTypes, ProbeButtons),
             ClickEventsOver(HistoryTypes))

SpecInstall == InitInstall /\ [][NextInstall]_vars

\* The machine until cleanup driven by every pointer type, button and
\* modifier at one position: the gestures that touch neither the camera nor
\* the recorded tilt position.
InitGesture ==
    InitWith({AllDeps},
             {[HarnessControls(TRUE, NonFinite, NonFinite)
                   EXCEPT !.minDistance = HarnessCamera.radius]},
             {HarnessCamera}, FALSE)

GestureDowns == DownEventsOver(MouseIds, PointerIds, PointerTypes, Buttons, HistoryYs)
GestureMoves == MoveEventsOver(PointerIds, PointerTypes, HistoryYs)
\* a touch or pen contact is lifted with the default button
GestureUps ==
    {e \in UpEventsOver(PointerIds, PointerTypes, Buttons) :
        isDesktopPointer(e.pointerType) \/ e.button = DefaultEvent.button}

\* the events of touch and pen contacts, and those of desktop pointers
TouchDowns == {e \in GestureDowns : ~isDesktopPointer(e.pointerType)}
TouchUps == {e \in GestureUps : ~isDesktopPointer(e.pointerType)}
DesktopDowns == {e \in GestureDowns : isDesktopPointer(e.pointerType)}
DesktopUps == {e \in GestureUps : isDesktopPointer(e.pointerType)}

NextGesture ==
    \/ Install
    \/ ToggleEditMode
    \/ \E event \in GestureDowns : DispatchPointerDown(event)
    \/ \E event \in GestureMoves : DispatchPointerMove(event)
    \/ \E event \in GestureUps : DispatchPointerUp(event)
    \/ \E event \in GestureUps : DispatchPointerCancel(event)
    \/ DispatchBlur
    \/ \E event \in ClickEvents : DispatchDoubleClick(event)

SpecGesture == InitGesture /\ [][NextGesture]_vars

\* The machine until cleanup driven by one mouse at three heights, with and
\* without the navigation callback, over the controllers and cameras of the
\* tests: the harness with rotateUp and minDistance 0.6, and controllers
\* without rotateUp whose polar range is open at one end, with a camera near
\* that pole (one of them off the z axis, the other nearer to the target than
\* minDistance) and with a camera placed on the target.
CameraYs == {100, 112, 140}
CameraDeps == {AllDeps, AllDeps \ {"onUserNavigate"}}
Rigs ==
    {<<[HarnessControls(TRUE, NonFinite, NonFinite) EXCEPT !.minDistance = 600],
       HarnessCamera>>,
     <<HarnessControls(FALSE, NonFinite, 200),
       [HarnessCamera EXCEPT !.polar = 60, !.azimuth = 700]>>,
     <<HarnessControls(FALSE, 3000, NonFinite),
       [HarnessCamera EXCEPT !.polar = 3100, !.radius = 3000]>>,
     <<HarnessControls(FALSE, NonFinite, NonFinite), [HarnessCamera EXCEPT !.radius = 0]>>}

InitCamera ==
    /\ InitWith(CameraDeps, {r[1] : r \in Rigs}, {r[2] : r \in Rigs}, FALSE)
    /\ <<controls, camera>> \in Rigs

CameraDowns == DownEventsOver(ProbeIds, {}, HistoryTypes, ProbeButtons, CameraYs)
CameraMoves == MoveEventsOver(ProbeIds, HistoryTypes, CameraYs)
CameraUps == UpEventsOver(ProbeIds, HistoryTypes, ProbeButtons)
CameraClicks == ClickEventsOver(HistoryTypes)

NextCamera ==
    \/ Install
    \/ ToggleEditMode
    \/ \E event \in CameraDowns : DispatchPointerDown(event)
    \/ \E event \in CameraMoves : DispatchPointerMove(event)
    \/ \E event \in CameraUps : DispatchPointerUp(event)
    \/ \E event \in CameraUps : DispatchPointerCancel(event)
    \/ DispatchBlur
    \/ \E event \in CameraClicks : DispatchDoubleClick(event)

SpecCamera == InitCamera /\ [][NextCamera]_vars

\* The exported pure functions, each applied once to arguments drawn from
\* bounded sets; nothing is installed.
ClassifyTypes == PointerTypes \cup {"unknown"}
TouchCounts == 0..MaxTouchCount

ClassifyArgs ==
    [pointerType : ClassifyTypes, button : Buttons, altKey : BOOLEAN,
     shiftKey : BOOLEAN, activeTouchCount : TouchCounts]

Requested(fn, args) == [fn |-> fn, args |-> args, done |-> FALSE]
Returned(fn, args, result) ==
    [fn |-> fn, args |-> args, done |-> TRUE, threw |-> FALSE, result |-> result]
\* the call ended with a TypeError instead of a value
Thrown(fn, args) ==
    [fn |-> fn, args |-> args, done |-> TRUE, threw |-> TRUE, result |-> "TypeError"]

\* applyPanTranslation: two cameras, the target at the origin or off it, the
\* next target on a grid that includes coordinates that are not finite, the
\* default epsilon (below the resolution), a negative one and a large one
PanCoords == (-1..MaxCoord) \cup {NonFinite}
PanEpsilons == {-1, 0, 2}
PanArgs ==
    [prevCamera : {[x |-> 0, y |-> 0, z |-> 5], [x |-> 1, y |-> 2, z |-> 3]},
     prevTarget : {[x |-> 0, y |-> 0, z |-> 0], [x |-> 1, y |-> -1, z |-> 0]},
     nextTarget : [x : PanCoords, y : PanCoords, z : PanCoords],
     userInteracting : BOOLEAN,
     interactionMode : INTERACTION_MODE,
     epsilon : PanEpsilons]
\* the same call with some of the three records not passed
PanArgsWithAbsent ==
    {a \in [prevCamera : {[x |-> 0, y |-> 0, z |-> 5], Absent},
            prevTarget : {[x |-> 0, y |-> 0, z |-> 0], Absent},
            nextTarget : {[x |-> 1, y |-> 1, z |-> 1], Absent},
            userInteracting : BOOLEAN,
            interactionMode : {MODE_PAN, MODE_NONE},
            epsilon : {0}] :
        Absent \in {a.prevCamera, a.prevTarget, a.nextTarget}}

\* computeZoomedCameraDistance: the distances and limits of the tests (0.61,
\* 5, 20; 0.6, 3.6, 10) with zero, negative and not finite ones
ZoomDistances == {NonFinite, -1000, 0, 610, 5000, 20000}
ZoomLimits == {-2000, -1000, 0, 600, 3600, 10000}
ZoomArgs == [currentDistance : ZoomDistances, minDistance : ZoomLimits, maxDistance : ZoomLimits]

\* computeTiltAngleFromDrag: the drags of the tests (3, 12, 999 pixels) in
\* both directions, radiansPerPixel 0.005 and 0.01, negative, zero and not
\* finite, maxStep 0.05 and 0.1 and zero
TiltDeltas == {NonFinite, -999, -12, -3, 0, 3, 12, 999}
TiltRates == {NonFinite, -10, 0, 5, 10}
TiltSteps == {0, 50, 100}
TiltArgs == [deltaY : TiltDeltas, radiansPerPixel : TiltRates, maxStep : TiltSteps]

\* Buffers of half-floats: up to MaxPoints points followed by at most two
\* entries of an incomplete point.  The points: (1, 2, -1); a subnormal,
\* -0 and 0.5 written with bits above the low sixteen; +Infinity in x; NaN
\* in z.
SamplerPoints ==
    {<<15360, 16384, 48128>>, <<1, 32768, 65536 + 14336>>,
     <<31744, 15360, 15360>>, <<15360, 15360, 32256>>}
RECURSIVE BuffersOf(_)
BuffersOf(n) ==
    IF n = 0 THEN {<<>>}
    ELSE {b \o p : b \in BuffersOf(n - 1), p \in SamplerPoints}
SamplerBuffers ==
    {ArrayOf(b \o tail) : b \in UNION {BuffersOf(n) : n \in 0..MaxPoints},
                          tail \in {<<>>, <<15360>>, <<15360, NonFinite>>}}
    \cup {Absent}
\* in halves: absent, -1, 0, 1, 1.5, 2 and 5 points
SamplerPointCounts == {NonFinite, -2, 0, 2, 3, 4, 10}
\* in halves: absent, -1, 0, 0.5, 1, 1.5, 2 and 2.5 samples
SamplerTargets == {NonFinite, -2, 0, 1, 2, 3, 4, 5}
SamplerArgs ==
    [cpuPoints : SamplerBuffers, pointCount : SamplerPointCounts,
     targetSampleCount : SamplerTargets]

\* Samples around the ray from the origin along +x: on the ray, two at
\* squared distance 1 from it, one at 2, one behind the origin, and one
\* not finite.
RayPoints ==
    {<<3, 0, 0>>, <<2, 1, 0>>, <<1, 0, 1>>, <<1, 1, 1>>, <<-1, 0, 0>>, <<NonFinite, 0, 0>>}
RECURSIVE SampleSetsOf(_)
SampleSetsOf(n) ==
    IF n = 0 THEN {<<>>}
    ELSE {s \o p : s \in SampleSetsOf(n - 1), p \in RayPoints}
RaySamples ==
    {ArrayOf(s) : s \in UNION {SampleSetsOf(n) : n \in 0..MaxPoints}} \cup {Absent}
RayOrigins == {[x |-> 0, y |-> 0, z |-> 0], [x |-> 1, y |-> 0, z |-> 0],
               [x |-> 0, y |-> NonFinite, z |-> 0], Absent}
RayDirections == {[x |-> 1, y |-> 0, z |-> 0], [x |-> 2, y |-> 0, z |-> 0],
                  [x |-> 0, y |-> 0, z |-> 0], [x |-> 0, y |-> 0, z |-> NonFinite], Absent}
\* absent (+Infinity), -1e-12, 0 and 1e-12
RayBudgets == {NonFinite, -1, 0, 1}
RayArgs ==
    [samples : RaySamples, rayOrigin : RayOrigins, rayDirection : RayDirections,
     maxDistanceSq : RayBudgets]

PureCalls ==
    {Requested("classifyPointerInteraction", a) : a \in ClassifyArgs}
    \cup {Requested("applyPanTranslation", a) : a \in PanArgs \cup PanArgsWithAbsent}
    \cup {Requested("computeZoomedCameraDistance", a) : a \in ZoomArgs}
    \cup {Requested("computeTiltAngleFromDrag", a) : a \in TiltArgs}

\* nothing is installed while the exported functions are called
NothingInstalled ==
    /\ phase = "uninstalled"
    /\ deps = AllDeps
    /\ state = InitialPointerState
    /\ controls = HarnessControls(TRUE, NonFinite, NonFinite)
    /\ camera = HarnessCamera
    /\ lotEditActive = FALSE
    /\ listeners = {}
    /\ lastEvent = [kind |-> "none", handled |-> FALSE, fx |-> NoEffects]
    /\ pending = [tracked |-> FALSE, down |-> {}]

InitPure ==
    /\ NothingInstalled
    /\ call \in PureCalls

ApplyClassify ==
    /\ call.fn = "classifyPointerInteraction" /\ ~call.done
    /\ call' = Returned(call.fn, call.args,
                        classifyPointerInteraction(call.args.pointerType, call.args.button,
                                                   call.args.altKey, call.args.shiftKey,
                                                   call.args.activeTouchCount))
    /\ UNCHANGED <<phase, deps, state, controls, camera, lotEditActive, listeners,
                   lastEvent, pending>>

ApplyPan ==
    /\ call.fn = "applyPanTranslation" /\ ~call.done
    /\ call' =
           IF applyPanTranslationThrows(call.args.prevCamera, call.args.prevTarget,
                                        call.args.nextTarget, call.args.userInteracting,
                                        call.args.interactionMode, call.args.epsilon)
           THEN Thrown(call.fn, call.args)
           ELSE IF call.args.prevCamera = Absent
           THEN Returned(call.fn, call.args, [shouldTranslate |-> FALSE, nextCamera |-> <<>>])
           ELSE Returned(call.fn, call.args,
                         applyPanTranslation(call.args.prevCamera, call.args.prevTarget,
                                             call.args.nextTarget, call.args.userInteracting,
                                             call.args.interactionMode, call.args.epsilon))
    /\ UNCHANGED <<phase, deps, state, controls, camera, lotEditActive, listeners,
                   lastEvent, pending>>

ApplyZoom ==
    /\ call.fn = "computeZoomedCameraDistance" /\ ~call.done
    /\ call' = Returned(call.fn, call.args,
                        computeZoomedCameraDistance(call.args.currentDistance,
                                                    call.args.minDistance,
                                                    call.args.maxDistance))
    /\ UNCHANGED <<phase, deps, state, controls, camera, lotEditActive, listeners,
                   lastEvent, pending>>

\* the angle of the drag and that of the opposite drag
ApplyTilt ==
    /\ call.fn = "computeTiltAngleFromDrag" /\ ~call.done
    /\ call' = Returned(call.fn, call.args,
                        [angle |-> computeTiltAngleFromDragWith(
                                       call.args.deltaY, call.args.radiansPerPixel,
                                       call.args.maxStep),
                         opposite |-> computeTiltAngleFromDragWith(
                                          Negated(call.args.deltaY),
                                          call.args.radiansPerPixel, call.args.maxStep)])
    /\ UNCHANGED <<phase, deps, state, controls, camera, lotEditActive, listeners,
                   lastEvent, pending>>

ApplySampler ==
    /\ call.fn = "sampleCpuPointsForFocus" /\ ~call.done
    /\ call' = Returned(call.fn, call.args,
                        sampleCpuPointsForFocus(call.args.cpuPoints, call.args.pointCount,
                                                call.args.targetSampleCount))
    /\ UNCHANGED <<phase, deps, state, controls, camera, lotEditActive, listeners,
                   lastEvent, pending>>

ApplyRay ==
    /\ call.fn = "findClosestSampleToRay" /\ ~call.done
    /\ call' = Returned(call.fn, call.args,
                        findClosestSampleToRay(call.args.samples, call.args.rayOrigin,
                                               call.args.rayDirection,
                                               call.args.maxDistanceSq))
    /\ UNCHANGED <<phase, deps, state, controls, camera, lotEditActive, listeners,
                   lastEvent, pending>>

NextPure ==
    \/ ApplyClassify
    \/ ApplyPan
    \/ ApplyZoom
    \/ ApplyTilt

SpecPure == InitPure /\ [][NextPure]_vars

\* --- the point sampler and the ray picker, called on every input
InitSampler ==
    /\ NothingInstalled
    /\ \E a \in SamplerArgs : call = Requested("sampleCpuPointsForFocus", a)

NextSampler == ApplySampler

SpecSampler == InitSampler /\ [][NextSampler]_vars

InitRay ==
    /\ NothingInstalled
    /\ \E a \in RayArgs : call = Requested("findClosestSampleToRay", a)

NextRay == ApplyRay

SpecRay == InitRay /\ [][NextRay]_vars

\* ================================================================ claims
TouchCount == Cardinality(state.touchPointerIds)

Installed == phase = "installed"

\* the state of a freshly installed machine, as far as a gesture can change it
FreshlyInstalled ==
    /\ state.interactionMode = MODE_NONE
    /\ state.touchPointerIds = {}
    /\ state.activeMousePointerId = Null
    /\ ~state.shiftTilt.active
    /\ controls.enabled
    /\ controls.LEFT = MOUSE.PAN

\* C1: in every reachable state, two or more ids in touchPointerIds imply
\* that the interaction mode is PINCH.
C1_TwoTouchesImplyPinch ==
    TouchCount >= 2 => state.interactionMode = MODE_PINCH

\* C2: in every reachable state, exactly one id in touchPointerIds implies
\* that the interaction mode is PAN.
C2_OneTouchImpliesPan ==
    TouchCount = 1 => state.interactionMode = MODE_PAN

\* C3 as stated: in every reachable state of the installed machine, no touch
\* id, no active mouse pointer and no active tilt imply the mode NONE.
C3_Original ==
    (Installed /\ TouchCount = 0 /\ state.activeMousePointerId = Null
        /\ ~state.shiftTilt.active)
    => state.interactionMode = MODE_NONE

\* a desktop pointer went down and has not gone up or been cancelled
DesktopPointerDown == \E p \in pending.down : isDesktopPointer(p[2])

\* C3 as amended: in every reachable state of the installed machine, no touch
\* id, no active mouse pointer, no active tilt and no desktop pointer that is
\* still down (of any button) imply the mode NONE.
C3_IdleImpliesNone ==
    (Installed /\ TouchCount = 0 /\ state.activeMousePointerId = Null
        /\ ~state.shiftTilt.active /\ ~DesktopPointerDown)
    => state.interactionMode = MODE_NONE

\* C3 witness: the machine is idle after the pointer-up that ended a desktop
\* gesture, a tilt gesture having recorded a position before.
C3_Witness ==
    /\ Installed /\ pending.tracked
    /\ lastEvent.kind = "pointerup" /\ lastEvent.handled
    /\ TouchCount = 0 /\ state.activeMousePointerId = Null
    /\ ~state.shiftTilt.active /\ ~DesktopPointerDown
    /\ state.shiftTilt.lastClientY # 0

\* C4: in every reachable state, an active tilt sub-state implies that
\* controls.enabled is false.
C4_TiltDisablesControls ==
    state.shiftTilt.active => ~controls.enabled

\* C4 witness: the tilt is still active after a pointer-up that did not end
\* it, with a touch contact down.
C4_Witness ==
    /\ state.shiftTilt.active
    /\ lastEvent.kind = "pointerup" /\ lastEvent.handled
    /\ TouchCount >= 1

\* C5: while edit mode is active, a pointer-down, pointer-move or double-click
\* changes neither the PointerState, the controller nor the camera, makes no
\* tilt, refresh or navigation call and does not prevent the event's default.
C5_EditModeSuppresses ==
    [][(editModeActive /\ lastEvent'.kind \in {"pointerdown", "pointermove", "dblclick"})
        => (/\ state' = state
            /\ controls' = controls
            /\ camera' = camera
            /\ lastEvent'.fx = NoEffects)]_vars

\* C5 witness: a pointer-move was handled in edit mode while a tilt gesture
\* was in progress.
C5_Witness ==
    /\ editModeActive
    /\ lastEvent.kind = "pointermove" /\ lastEvent.handled
    /\ state.shiftTilt.active

\* C6: immediately after a handled window blur there is no touch id, the tilt
\* sub-state is inactive without a pointer id, controls.enabled is true, no
\* mouse pointer is active, the mode is NONE and the left binding is pan.
C6_BlurRecovers ==
    (lastEvent.kind = "blur" /\ lastEvent.handled)
    => (/\ state.touchPointerIds = {}
        /\ ~state.shiftTilt.active
        /\ state.shiftTilt.pointerId = Null
        /\ controls.enabled
        /\ state.activeMousePointerId = Null
        /\ state.interactionMode = MODE_NONE
        /\ controls.LEFT = MOUSE.PAN)

\* C6 witness: a blur was handled with edit mode active, after a tilt gesture
\* had recorded a position.
C6_Witness ==
    /\ lastEvent.kind = "blur" /\ lastEvent.handled
    /\ editModeActive
    /\ state.shiftTilt.lastClientY # 0

\* C7: whenever every pointer that went down has gone up or been cancelled
\* with the same pointerId and pointerType, the machine is in its freshly
\* installed state.
C7_AllReleasedImpliesFresh ==
    (Installed /\ pending.down = {}) => FreshlyInstalled

\* C7 witness: all pointers are released again after a tilt gesture.
C7_Witness ==
    /\ Installed /\ pending.tracked /\ pending.down = {}
    /\ lastEvent.kind \in {"pointerup", "pointercancel"} /\ lastEvent.handled
    /\ state.shiftTilt.lastClientY # 0

\* C8: after cleanup no subscription is left, and no dispatched event changes
\* the PointerState, the controller or the camera or makes any call.
C8_CleanupMakesInert ==
    [][phase = "cleaned"
        => (/\ listeners = {}
            /\ state' = state
            /\ controls' = controls
            /\ camera' = camera
            /\ lastEvent'.fx = NoEffects)]_vars

\* C8 witness: a blur was dispatched after cleanup while the tilt sub-state
\* was active, and went unhandled.
C8_Witness ==
    /\ phase = "cleaned"
    /\ lastEvent.kind = "blur" /\ ~lastEvent.handled
    /\ state.shiftTilt.active

\* C9: after cleanup, controls.enabled is true and the left binding is pan.
C9_CleanupLeavesNoDanglingEffects ==
    phase = "cleaned" => (controls.enabled /\ controls.LEFT = MOUSE.PAN)

\* C10: install raises the configuration error exactly when one of the six
\* required fields is missing; it has then registered no listener and left
\* the controller as it was.
C10_InstallFailsFast ==
    /\ phase = "failed"
        => (/\ listeners = {}
            /\ controls = HarnessControls(TRUE, NonFinite, NonFinite)
            /\ \E f \in {"windowTarget", "domElement", "controls", "camera", "MOUSE", "Vector3"} :
                   f \notin deps)
    /\ phase \in {"installed", "cleaned"}
        => {"windowTarget", "domElement", "controls", "camera", "MOUSE", "Vector3"} \subseteq deps
    /\ phase = "installed" => (listeners # {} /\ controls.LEFT \in {MOUSE.PAN, MOUSE.ROTATE})

\* C10 witness: install failed for a configuration that lacks only the
\* vector constructor.
C10_Witness ==
    phase = "failed" /\ deps = AllDeps \ {"Vector3"}

\* C11: classifyPointerInteraction is the fixed table.  Touch and pen give
\* PINCH with two or more active touches and PAN otherwise, whatever the
\* button and modifiers; every other pointer type gives TILT for button 0 with
\* shift (also with alt), ORBIT for button 0 with alt only, PAN for button 0
\* alone, DOLLY for button 1, ORBIT for button 2 and OTHER for the rest.
C11_ClassifyIsTheTable ==
    (call.fn = "classifyPointerInteraction" /\ call.done) =>
        LET a == call.args
        IN  call.result =
                IF a.pointerType \in {"touch", "pen"}
                THEN (IF a.activeTouchCount >= 2 THEN MODE_PINCH ELSE MODE_PAN)
                ELSE CASE a.button = 0 /\ a.shiftKey -> MODE_TILT
                       [] a.button = 0 /\ a.altKey /\ ~a.shiftKey -> MODE_ORBIT
                       [] a.button = 0 /\ ~a.altKey /\ ~a.shiftKey -> MODE_PAN
                       [] a.button = 1 -> MODE_DOLLY
                       [] a.button = 2 -> MODE_ORBIT
                       [] OTHER -> MODE_OTHER

C11_Witness ==
    /\ call.fn = "classifyPointerInteraction" /\ call.done
    /\ call.args.pointerType = "mouse" /\ call.args.button = 0
    /\ call.args.altKey /\ call.args.shiftKey
    /\ call.result = MODE_TILT

\* C12: right after a touch or pen pointer-down handled with edit mode
\* inactive, and right after a handled touch or pen pointer-up or
\* pointer-cancel, the mode is PINCH with two or more ids in touchPointerIds,
\* PAN with one and NONE with none; the down adds its id to the set and the up
\* removes it, so that a repeated down or an unmatched up leaves the count.
C12_TouchEventsDeriveModeFromCount ==
    [][/\ (lastEvent'.kind = "pointerdown" /\ lastEvent'.handled /\ ~editModeActive)
          => \A e \in TouchDowns :
                 DispatchPointerDown(e)
                 => /\ state'.touchPointerIds = state.touchPointerIds \cup {e.pointerId}
                    /\ state'.interactionMode =
                           IF TouchCount' >= 2 THEN MODE_PINCH
                           ELSE IF TouchCount' = 1 THEN MODE_PAN ELSE MODE_NONE
       /\ (lastEvent'.kind \in {"pointerup", "pointercancel"} /\ lastEvent'.handled)
          => \A e \in TouchUps :
                 (DispatchPointerUp(e) \/ DispatchPointerCancel(e))
                 => /\ state'.touchPointerIds = state.touchPointerIds \ {e.pointerId}
                    /\ state'.interactionMode =
                           IF TouchCount' >= 2 THEN MODE_PINCH
                           ELSE IF TouchCount' = 1 THEN MODE_PAN ELSE MODE_NONE]_vars

\* two contacts went down and one of them was lifted
C12_Witness ==
    /\ lastEvent.kind = "pointerup" /\ lastEvent.handled
    /\ TouchCount = 1
    /\ state.interactionMode = MODE_PAN

\* C13: a handled desktop pointer-down of button 0 with edit mode inactive
\* binds the left button to rotate when alt is held and to pan when it is not,
\* and with alt and without shift sets the mode to ORBIT; a handled desktop
\* pointer-up or pointer-cancel whose pointerId is activeMousePointerId or
\* whose button is 0 binds the left button back to pan, and every handled
\* desktop pointer-up or pointer-cancel sets the mode to NONE.
C13_LeftBindingFollowsAlt ==
    [][/\ (lastEvent'.kind = "pointerdown" /\ lastEvent'.handled /\ ~editModeActive)
          => \A e \in {d \in DesktopDowns : d.button = 0} :
                 DispatchPointerDown(e)
                 => /\ controls'.LEFT = IF e.altKey THEN MOUSE.ROTATE ELSE MOUSE.PAN
                    /\ (e.altKey /\ ~e.shiftKey) => state'.interactionMode = MODE_ORBIT
       /\ (lastEvent'.kind \in {"pointerup", "pointercancel"} /\ lastEvent'.handled)
          => \A e \in DesktopUps :
                 (DispatchPointerUp(e) \/ DispatchPointerCancel(e))
                 => /\ (e.pointerId = state.activeMousePointerId \/ e.button = 0)
                       => controls'.LEFT = MOUSE.PAN
                    /\ state'.interactionMode = MODE_NONE]_vars

\* the left button went down with alt held
C13_Witness ==
    /\ lastEvent.kind = "pointerdown" /\ lastEvent.handled
    /\ state.activeMousePointerId # Null
    /\ controls.LEFT = MOUSE.ROTATE
    /\ state.interactionMode = MODE_ORBIT

\* C14: a pointer-down enters the tilt (shiftTilt active with the pointer id
\* and clientY of the event, controls.enabled false, preventDefault and
\* stopPropagation called) exactly when it is a handled desktop pointer-down
\* of button 0 with shift while edit mode is inactive; every other
\* pointer-down leaves shiftTilt and controls.enabled as they were and calls
\* neither; a handled desktop pointer-up with the recorded tilt pointer id
\* sets controls.enabled back to true.
C14_TiltEntryIffShiftLeft ==
    [][/\ lastEvent'.kind = "pointerdown"
          => \A e \in GestureDowns :
                 DispatchPointerDown(e)
                 => IF /\ lastEvent'.handled /\ ~editModeActive
                       /\ isDesktopPointer(e.pointerType) /\ e.button = 0 /\ e.shiftKey
                    THEN /\ state'.shiftTilt = [active |-> TRUE, pointerId |-> e.pointerId,
                                                lastClientY |-> e.clientY]
                         /\ controls'.enabled = FALSE
                         /\ lastEvent'.fx.defaultPrevented
                         /\ lastEvent'.fx.propagationStopped
                    ELSE /\ state'.shiftTilt = state.shiftTilt
                         /\ controls'.enabled = controls.enabled
                         /\ ~lastEvent'.fx.defaultPrevented
                         /\ ~lastEvent'.fx.propagationStopped
       /\ (lastEvent'.kind = "pointerup" /\ lastEvent'.handled)
          => \A e \in DesktopUps :
                 (DispatchPointerUp(e) /\ e.pointerId = state.shiftTilt.pointerId)
                 => controls'.enabled = TRUE]_vars

\* shift + left button just went down
C14_Witness ==
    /\ lastEvent.kind = "pointerdown" /\ lastEvent.handled
    /\ state.shiftTilt = [active |-> TRUE, pointerId |-> 1, lastClientY |-> 100]
    /\ ~controls.enabled
    /\ lastEvent.fx.defaultPrevented /\ lastEvent.fx.propagationStopped

\* C17 as stated: activeMousePointerId changes only by being set to the
\* pointer id of a handled desktop pointer-down of button 0 with edit mode
\* inactive, or by being cleared by a desktop pointer-up or pointer-cancel
\* whose pointerId equals it or by a window blur.
C17_Original ==
    [][state'.activeMousePointerId # state.activeMousePointerId
       => /\ lastEvent'.handled
          /\ \/ /\ lastEvent'.kind = "pointerdown" /\ ~editModeActive
                /\ \E e \in {d \in DesktopDowns : d.button = 0} :
                       DispatchPointerDown(e) /\ state'.activeMousePointerId = e.pointerId
             \/ /\ lastEvent'.kind \in {"pointerup", "pointercancel"}
                /\ state'.activeMousePointerId = Null
                /\ \E e \in DesktopUps :
                       /\ DispatchPointerUp(e) \/ DispatchPointerCancel(e)
                       /\ e.pointerId = state.activeMousePointerId
             \/ /\ lastEvent'.kind = "blur"
                /\ state'.activeMousePointerId = Null]_vars

\* C17: activeMousePointerId changes only by being set to the pointer id of
\* a handled desktop pointer-down of button 0 with edit mode inactive, or by
\* being cleared by a desktop pointer-up or pointer-cancel whose pointerId
\* equals it or whose button is 0, or by a window blur; each of these events
\* does set or clear it, and nothing else (touch and pen events,
\* pointer-moves, double-clicks, other desktop pointer-downs) changes it.
C17_ActiveMouseFrame ==
    [][/\ state'.activeMousePointerId # state.activeMousePointerId
          => /\ lastEvent'.handled
             /\ \/ /\ lastEvent'.kind = "pointerdown" /\ ~editModeActive
                   /\ \E e \in {d \in DesktopDowns : d.button = 0} :
                          DispatchPointerDown(e) /\ state'.activeMousePointerId = e.pointerId
                \/ /\ lastEvent'.kind \in {"pointerup", "pointercancel"}
                   /\ state'.activeMousePointerId = Null
                   /\ \E e \in DesktopUps :
                          /\ DispatchPointerUp(e) \/ DispatchPointerCancel(e)
                          /\ e.pointerId = state.activeMousePointerId \/ e.button = 0
                \/ /\ lastEvent'.kind = "blur"
                   /\ state'.activeMousePointerId = Null
       /\ (lastEvent'.kind = "pointerdown" /\ lastEvent'.handled /\ ~editModeActive)
          => \A e \in {d \in DesktopDowns : d.button = 0} :
                 DispatchPointerDown(e) => state'.activeMousePointerId = e.pointerId
       /\ (lastEvent'.kind \in {"pointerup", "pointercancel"} /\ lastEvent'.handled)
          => \A e \in {u \in DesktopUps : u.pointerId = state.activeMousePointerId} :
                 (DispatchPointerUp(e) \/ DispatchPointerCancel(e))
                 => state'.activeMousePointerId = Null
       /\ (lastEvent'.kind = "blur" /\ lastEvent'.handled)
          => state'.activeMousePointerId = Null]_vars

\* the left button went down on a desktop pointer
C17_Witness ==
    /\ lastEvent.kind = "pointerdown" /\ lastEvent.handled
    /\ state.activeMousePointerId = 1
    /\ state.interactionMode = MODE_PAN

\* C15: while the tilt is active and edit mode is not, a handled desktop
\* pointer-move with the recorded tilt pointer id records the clientY of the
\* event and, with the angle being the Y delta times 0.005 clamped to
\* -0.1 .. 0.1: when the angle is not negligible, tilts once (one
\* rotateUp(angle) call where the controller has rotateUp; otherwise the
\* spherical fallback, which moves the polar angle of a camera off the target
\* by the angle within the polar range, 0 .. pi where undefined), refreshes the
\* controller once, notifies the navigation callback once where one is
\* configured, and calls preventDefault; when the angle is negligible it does
\* none of these.
C15_TiltMoveAppliesOnce ==
    [][(/\ lastEvent'.kind = "pointermove" /\ lastEvent'.handled
        /\ state.shiftTilt.active /\ ~editModeActive)
       => \A e \in {m \in CameraMoves : /\ isDesktopPointer(m.pointerType)
                                       /\ m.pointerId = state.shiftTilt.pointerId} :
              DispatchPointerMove(e)
              => LET dy == e.clientY - state.shiftTilt.lastClientY
                     angle == IF dy * RadiansPerPixel > MaxStep THEN MaxStep
                              ELSE IF dy * RadiansPerPixel < -MaxStep THEN -MaxStep
                              ELSE dy * RadiansPerPixel
                     lo == IF controls.minPolarAngle = NonFinite THEN 0
                           ELSE controls.minPolarAngle
                     hi == IF controls.maxPolarAngle = NonFinite THEN PiMilli
                           ELSE controls.maxPolarAngle
                     moved == camera.polar + angle
                 IN  /\ state'.shiftTilt.lastClientY = e.clientY
                     /\ IF angle # 0
                        THEN /\ lastEvent'.fx.rotateUpCalls =
                                    IF controls.hasRotateUp THEN <<angle>> ELSE <<>>
                             /\ IF controls.hasRotateUp \/ camera.radius = 0
                                THEN camera' = camera
                                ELSE /\ camera'.radius = camera.radius
                                     /\ camera'.polar =
                                            IF moved < lo THEN lo
                                            ELSE IF moved > hi THEN hi ELSE moved
                             /\ lastEvent'.fx.updateCalls = 1
                             /\ lastEvent'.fx.navigateCalls =
                                    IF hasNavigateCallback THEN 1 ELSE 0
                             /\ lastEvent'.fx.defaultPrevented
                        ELSE /\ lastEvent'.fx = NoEffects
                             /\ camera' = camera]_vars

\* the move from y = 100 to y = 112 of the shift-drag test
C15_Witness ==
    /\ lastEvent.kind = "pointermove" /\ lastEvent.handled
    /\ state.shiftTilt.active /\ state.shiftTilt.lastClientY = 112
    /\ lastEvent.fx.rotateUpCalls = <<60>>
    /\ lastEvent.fx.updateCalls = 1 /\ lastEvent.fx.navigateCalls = 1
    /\ lastEvent.fx.defaultPrevented

\* C16: a handled desktop double-click with edit mode inactive and a camera
\* at distance d > 0 from the target, with d' =
\* computeZoomedCameraDistance(d, minDistance, maxDistance): when d' differs
\* from d the camera is at distance d' in the same direction, the controller
\* is refreshed once, the navigation callback is notified once where one is
\* configured, and preventDefault is called; when d' = d nothing changes and
\* preventDefault is not called; a double-click of a touch or pen pointer or
\* with the camera on the target changes nothing.
C16_DoubleClickZoomsOrLeaves ==
    [][(lastEvent'.kind = "dblclick" /\ lastEvent'.handled /\ ~editModeActive)
       => \A e \in CameraClicks :
              DispatchDoubleClick(e)
              => LET d == camera.radius
                     zoomed == computeZoomedCameraDistance(d, controls.minDistance,
                                                           controls.maxDistance)
                 IN  /\ state' = state /\ controls' = controls
                     /\ IF e.pointerType \notin {"touch", "pen"} /\ d > 0 /\ zoomed # d
                        THEN /\ camera' = [camera EXCEPT !.radius = zoomed]
                             /\ lastEvent'.fx =
                                    [NoEffects EXCEPT
                                        !.updateCalls = 1,
                                        !.navigateCalls = IF hasNavigateCallback THEN 1 ELSE 0,
                                        !.defaultPrevented = TRUE]
                        ELSE /\ camera' = camera
                             /\ lastEvent'.fx = NoEffects]_vars

\* the double click of the test: from distance 5 to 3.6
C16_Witness ==
    /\ lastEvent.kind = "dblclick" /\ lastEvent.handled
    /\ camera.radius = 3600
    /\ lastEvent.fx.updateCalls = 1 /\ lastEvent.fx.navigateCalls = 1
    /\ lastEvent.fx.defaultPrevented

\* C18 as stated: touchPointerIds contains every touch or pen contact that
\* went down and has not gone up or been cancelled since.
C18_Original ==
    \A p \in pending.down :
        ~isDesktopPointer(p[2]) => p[1] \in state.touchPointerIds

\* C18: touchPointerIds contains only touch or pen contacts that went down
\* and have not gone up or been cancelled since; a contact enters it when its
\* pointer-down is handled with edit mode inactive, and leaves it only by a
\* pointer-up or pointer-cancel of a touch or pen pointer with its id or by a
\* window blur.
C18_TouchIdsAreContactsDown ==
    [][/\ \A i \in state'.touchPointerIds :
              \E p \in pending'.down : p[1] = i /\ ~isDesktopPointer(p[2])
       /\ (lastEvent'.kind = "pointerdown" /\ lastEvent'.handled /\ ~editModeActive)
          => \A e \in {d \in DownEventsOver(MouseIds, PointerIds, HistoryTypes, Buttons,
                                            HistoryYs) : ~isDesktopPointer(d.pointerType)} :
                 DispatchPointerDown(e) => e.pointerId \in state'.touchPointerIds
       /\ \A i \in state.touchPointerIds \ state'.touchPointerIds :
              \/ lastEvent'.kind = "blur"
              \/ /\ lastEvent'.kind \in {"pointerup", "pointercancel"}
                 /\ \E e \in UpEventsOver({i}, HistoryTypes \ {"mouse"}, Buttons) :
                        /\ e.pointerId = i
                        /\ DispatchPointerUp(e) \/ DispatchPointerCancel(e)]_vars

\* two contacts are down, and the set holds only the one that went down
\* outside edit mode or after the blur
C18_Witness ==
    /\ \E p \in pending.down : ~isDesktopPointer(p[2]) /\ p[1] \notin state.touchPointerIds
    /\ \E p \in pending.down : ~isDesktopPointer(p[2]) /\ p[1] \in state.touchPointerIds
    /\ TouchCount = 1

\* C19: applyPanTranslation returns nextCamera = prevCamera + (nextTarget -
\* prevTarget) exactly when userInteracting is true, the mode is PAN and the
\* length of the delta is finite and greater than epsilon; in every other
\* case, every other mode included, nextCamera = prevCamera component by
\* component; shouldTranslate tells which case applied.
C19_PanTranslatesExactlyWhenGated ==
    (call.fn = "applyPanTranslation" /\ call.done /\ call.args \in PanArgs) =>
        LET a == call.args
            finite == \A v \in {a.nextTarget.x, a.nextTarget.y, a.nextTarget.z} :
                          v # NonFinite
            dx == a.nextTarget.x - a.prevTarget.x
            dy == a.nextTarget.y - a.prevTarget.y
            dz == a.nextTarget.z - a.prevTarget.z
            gated == /\ a.userInteracting
                     /\ a.interactionMode = MODE_PAN
                     /\ finite
                     /\ (a.epsilon < 0 \/ dx * dx + dy * dy + dz * dz > a.epsilon * a.epsilon)
        IN  /\ call.result.shouldTranslate = gated
            /\ call.result.nextCamera =
                   IF gated
                   THEN [x |-> a.prevCamera.x + dx, y |-> a.prevCamera.y + dy,
                         z |-> a.prevCamera.z + dz]
                   ELSE a.prevCamera

\* a pan that moves the target by (1, 1, 1), and the camera with it
C19_Witness ==
    /\ call.fn = "applyPanTranslation" /\ call.done
    /\ call.args.interactionMode = MODE_PAN /\ call.args.userInteracting
    /\ call.args.prevCamera = [x |-> 0, y |-> 0, z |-> 5]
    /\ call.args.prevTarget = [x |-> 0, y |-> 0, z |-> 0]
    /\ call.args.nextTarget = [x |-> 1, y |-> 1, z |-> 1]
    /\ call.args.epsilon = 0
    /\ call.result.shouldTranslate
    /\ call.result.nextCamera = [x |-> 1, y |-> 1, z |-> 6]

\* C20: for a finite currentDistance > 0 and finite limits,
\* computeZoomedCameraDistance returns currentDistance * zoomFactor clamped
\* into [max(0, minDistance), max(minDistance, maxDistance)], never below
\* max(0, minDistance) and never above max(minDistance, maxDistance); a
\* currentDistance that is not finite or not positive is returned unchanged.
C20_ZoomStaysInCorrectedRange ==
    (call.fn = "computeZoomedCameraDistance" /\ call.done) =>
        LET a == call.args
            lower == IF a.minDistance > 0 THEN a.minDistance ELSE 0
            upper == IF a.maxDistance > a.minDistance THEN a.maxDistance ELSE a.minDistance
            scaled == (a.currentDistance * ZoomFactorPct) \div 100
        IN  IF a.currentDistance = NonFinite \/ a.currentDistance <= 0
            THEN call.result = a.currentDistance
            ELSE /\ call.result = (IF scaled < lower THEN lower
                                    ELSE IF scaled > upper THEN upper ELSE scaled)
                 /\ call.result >= lower
                 /\ call.result <= upper

\* C21: computeTiltAngleFromDrag returns 0 when deltaY or radiansPerPixel is
\* not finite or radiansPerPixel is 0, and otherwise deltaY * radiansPerPixel
\* clamped to [-maxStep, maxStep] (maxStep >= 0); its magnitude never exceeds
\* maxStep, and the opposite drag gives the opposite angle.
C21_TiltAngleClampedAndOdd ==
    (call.fn = "computeTiltAngleFromDrag" /\ call.done) =>
        LET a == call.args
            product == a.deltaY * a.radiansPerPixel
        IN  /\ call.result.angle =
                   IF a.deltaY = NonFinite \/ a.radiansPerPixel \in {NonFinite, 0} THEN 0
                   ELSE IF product > a.maxStep THEN a.maxStep
                   ELSE IF product < -a.maxStep THEN -a.maxStep
                   ELSE product
            /\ call.result.angle <= a.maxStep
            /\ call.result.angle >= -a.maxStep
            /\ call.result.opposite = -call.result.angle

\* the clamped drag of the test: 999 pixels at 0.01 rad/pixel, maxStep 0.05
C21_Witness ==
    /\ call.fn = "computeTiltAngleFromDrag" /\ call.done
    /\ call.args = [deltaY |-> 999, radiansPerPixel |-> 10, maxStep |-> 50]
    /\ call.result = [angle |-> 50, opposite |-> -50]

\* C22: the numeric and geometry functions are total: whatever the
\* arguments, absent ones and absent vector records included, the call
\* returns a value and does not raise an error.
C22_FunctionsNeverThrow ==
    call.fn # "none" /\ call.done => ~call.threw

\* C23: for a finite positive targetSampleCount, whole or not, a result of
\* the sampler has sourcePointCount = min(requested, floor(length / 3)),
\* its stride is the smallest integer >= 1 with
\* ceil(sourcePointCount / stride) <= targetSampleCount, and
\* sampledPointCount <= ceil(sourcePointCount / stride) <= targetSampleCount.
C23_StrideIsSmallestWithinTarget ==
    (/\ call.fn = "sampleCpuPointsForFocus" /\ call.done
     /\ call.result # NoResult
     /\ IsFinite(call.args.targetSampleCount) /\ call.args.targetSampleCount > 0) =>
        LET r == call.result
            available == Len(call.args.cpuPoints.items) \div 3
            requested == IF IsFinite(call.args.pointCount)
                         THEN Max(0, call.args.pointCount \div CountScale)
                         ELSE available
            source == r.sourcePointCount
            WithinTarget(s) == CeilDiv(source, s) * CountScale <= call.args.targetSampleCount
        IN  /\ source = Min(requested, available)
            /\ r.stride >= 1
            /\ WithinTarget(r.stride)
            /\ \A s \in 1..(r.stride - 1) : ~WithinTarget(s)
            /\ r.sampledPointCount <= CeilDiv(source, r.stride)

\* C24: the output of the sampler is exactly, in source order, the points
\* at indices 0, stride, 2 stride, ... below sourcePointCount whose three
\* decoded half-floats are finite, each as (-x, -y, z); sampledPointCount
\* is their number and samples has three entries for each; nothing is
\* returned for a buffer of fewer than three entries or a sourcePointCount
\* of 0, and a result has at least one sample.
C24_OutputIsTheFinitePicks ==
    (call.fn = "sampleCpuPointsForFocus" /\ call.done) =>
        LET a == call.args
            r == call.result
            items == a.cpuPoints.items
            Decoded(i, k) == decodeFloat16(items[3 * i + k])
            Picks == {i \in 0..(r.sourcePointCount - 1) :
                        /\ i % r.stride = 0
                        /\ \A k \in 1..3 : IsFinite(Decoded(i, k))}
            Rank(i) == Cardinality({j \in Picks : j < i})
        IN  IF a.cpuPoints = Absent THEN r = NoResult
            ELSE IF Len(items) < 3 THEN r = NoResult
            ELSE IF IsFinite(a.pointCount) /\ a.pointCount < CountScale THEN r = NoResult
            ELSE r # NoResult =>
                /\ r.sampledPointCount >= 1
                /\ Len(r.samples) = 3 * r.sampledPointCount
                /\ r.sampledPointCount = Cardinality(Picks)
                /\ \A i \in Picks :
                      /\ r.samples[3 * Rank(i) + 1] = -Decoded(i, 1)
                      /\ r.samples[3 * Rank(i) + 2] = -Decoded(i, 2)
                      /\ r.samples[3 * Rank(i) + 3] = Decoded(i, 3)

\* the ray of a call of findClosestSampleToRay is usable: the three
\* arguments are there, the origin is finite and the direction has a
\* finite length above the threshold
RayUsable(a) ==
    /\ a.samples # Absent /\ a.rayOrigin # Absent /\ a.rayDirection # Absent
    /\ IsFinite(a.rayOrigin.x) /\ IsFinite(a.rayOrigin.y) /\ IsFinite(a.rayOrigin.z)
    /\ IsFinite(a.rayDirection.x) /\ IsFinite(a.rayDirection.y) /\ IsFinite(a.rayDirection.z)
    /\ <<a.rayDirection.x, a.rayDirection.y, a.rayDirection.z>> # <<0, 0, 0>>

\* the sample at a 0-based point index of a call with a usable ray along +x
RaySampleAt(a, i) ==
    LET items == a.samples.items
        finite == \A k \in 1..3 : IsFinite(items[3 * i + k])
    IN  [finite |-> finite,
         rayDistance |-> IF finite THEN items[3 * i + 1] - a.rayOrigin.x ELSE 0,
         distanceSq |-> IF finite
                        THEN (items[3 * i + 2] - a.rayOrigin.y) * (items[3 * i + 2] - a.rayOrigin.y)
                             + (items[3 * i + 3] - a.rayOrigin.z) * (items[3 * i + 3] - a.rayOrigin.z)
                        ELSE 0]

\* the samples of the call that no rule excludes: finite, in front of the
\* origin and within the budget when there is one
RayEligible(a) ==
    {i \in 0..((Len(a.samples.items) \div 3) - 1) :
        /\ RaySampleAt(a, i).finite
        /\ RaySampleAt(a, i).rayDistance > 0
        /\ IsFinite(a.maxDistanceSq) => RaySampleAt(a, i).distanceSq <= a.maxDistanceSq}

\* C25: whatever the order of the samples, the one returned has the
\* smallest squared distance to the ray among those not excluded, but for
\* a preference for the smaller projection among samples whose squared
\* distances are within 1e-12 of each other: the returned distanceSq is
\* never more than 1e-12 above the smallest one.
C25_ReturnsNearestWithinTolerance ==
    (/\ call.fn = "findClosestSampleToRay" /\ call.done
     /\ call.result # NoResult
     /\ call.args.maxDistanceSq \notin {-1}) =>
        \A i \in RayEligible(call.args) :
            LET e == RaySampleAt(call.args, i)
            IN  /\ call.result.distanceSq <= e.distanceSq + TieTolerance
                /\ e.distanceSq < call.result.distanceSq =>
                       call.result.rayDistance < e.rayDistance

\* C26: whatever the samples, origin, direction and budget (0 and negative
\* budgets included), a sample returned by findClosestSampleToRay has a
\* projection above 0 and a squared distance to the ray of at most
\* maxDistanceSq; nothing is returned when there is no sample, when the
\* direction is near zero, when the origin or the direction is not finite,
\* or when every sample is excluded.
C26_ReturnedSampleIsNotExcluded ==
    (call.fn = "findClosestSampleToRay" /\ call.done) =>
        /\ call.result # NoResult =>
              /\ call.result.rayDistance > 0
              /\ IsFinite(call.args.maxDistanceSq) =>
                     call.result.distanceSq <= call.args.maxDistanceSq
        /\ ~RayUsable(call.args) => call.result = NoResult
        /\ (RayUsable(call.args) /\ RayEligible(call.args) = {}) => call.result = NoResult

\* C27: a pointer-move changes the camera, calls rotateUp or update, or
\* notifies the navigation callback only when the tilt is active, the
\* pointer id of the move is the recorded tilt pointer id, the pointer is
\* a desktop one and edit mode is inactive; any other move leaves the
\* pointer state (recorded Y included), the controller and the camera as
\* they were and has no effect.  The tilt is inactive after the up or
\* cancel of the tilt pointer and after a blur, and only a pointer-down
\* with shift and the primary button makes it active.
C27_MovesOutsideTiltChangeNothing ==
    [][/\ (lastEvent'.kind = "pointermove" /\ lastEvent'.handled)
          => \A e \in CameraMoves :
                 (/\ ~(/\ state.shiftTilt.active
                       /\ e.pointerId = state.shiftTilt.pointerId
                       /\ isDesktopPointer(e.pointerType)
                       /\ ~editModeActive)
                  /\ DispatchPointerMove(e))
                 => /\ state' = state /\ controls' = controls /\ camera' = camera
                    /\ lastEvent'.fx = NoEffects
       /\ (lastEvent'.kind \in {"pointerup", "pointercancel"} /\ lastEvent'.handled)
          => \A e \in CameraUps :
                 (/\ isDesktopPointer(e.pointerType)
                  /\ e.pointerId = state.shiftTilt.pointerId
                  /\ DispatchPointerUp(e) \/ DispatchPointerCancel(e))
                 => ~state'.shiftTilt.active
       /\ (lastEvent'.kind = "blur" /\ lastEvent'.handled) => ~state'.shiftTilt.active
       /\ (~state.shiftTilt.active /\ state'.shiftTilt.active)
          => \E e \in CameraDowns :
                 /\ e.shiftKey /\ e.button = 0 /\ isDesktopPointer(e.pointerType)
                 /\ DispatchPointerDown(e)]_vars

\* a move arrives after a tilt has begun at y = 112 and ended
C27_Witness ==
    /\ lastEvent.kind = "pointermove" /\ lastEvent.handled
    /\ lastEvent.fx = NoEffects
    /\ ~state.shiftTilt.active /\ state.shiftTilt.lastClientY = 112
    /\ controls.enabled

\* C28: while the tilt is active, a handled desktop pointer-up or cancel
\* ends it (active false, pointer id cleared, controller enabled) exactly
\* when the event has no pointer id or has the recorded tilt pointer id;
\* with another pointer id it leaves the tilt active, its pointer id and
\* recorded Y as they were and the controller disabled, and still sets the
\* mode to NONE.
C28_TiltEndsOnlyForItsPointer ==
    [][(/\ lastEvent'.kind \in {"pointerup", "pointercancel"} /\ lastEvent'.handled
        /\ state.shiftTilt.active)
       => \A e \in DesktopUps :
              (DispatchPointerUp(e) \/ DispatchPointerCancel(e))
              => IF e.pointerId \in {Undefined, state.shiftTilt.pointerId}
                 THEN /\ ~state'.shiftTilt.active
                      /\ state'.shiftTilt.pointerId = Null
                      /\ controls'.enabled
                 ELSE /\ state'.shiftTilt = state.shiftTilt
                      /\ ~controls.enabled /\ ~controls'.enabled
                      /\ state'.interactionMode = MODE_NONE]_vars

\* the up of another pointer has left the tilt active
C28_Witness ==
    /\ lastEvent.kind = "pointerup" /\ lastEvent.handled
    /\ state.shiftTilt.active /\ state.shiftTilt.pointerId = 1
    /\ ~controls.enabled
    /\ state.interactionMode = MODE_NONE

C30_Original ==
    [][lastEvent'.kind = "dblclick" => camera'.radius <= camera.radius]_vars

\* C30: after a double-click the distance of the camera from the target is
\* not greater than before, except from a distance below the lower limit
\* (minDistance, 0 where it is not finite), from which a handled desktop
\* double-click outside edit mode moves the camera out to that limit.
C30_DoubleClickZoomsInOrOutToMin ==
    [][lastEvent'.kind = "dblclick"
       => \A e \in CameraClicks :
              DispatchDoubleClick(e)
              => LET lower == IF IsFinite(controls.minDistance) THEN controls.minDistance
                              ELSE 0
                 IN  IF /\ lastEvent'.handled /\ ~editModeActive
                        /\ isDesktopPointer(e.pointerType)
                        /\ camera.radius > 0 /\ camera.radius < lower
                     THEN camera'.radius = lower
                     ELSE camera'.radius <= camera.radius]_vars

\* the double click of the camera at distance 3 of a controller with
\* minDistance 3.6 has moved it out to 3.6
C30_Witness ==
    /\ lastEvent.kind = "dblclick" /\ lastEvent.handled
    /\ lastEvent.fx.updateCalls = 1
    /\ controls.minPolarAngle = 3000 /\ controls.minDistance = 3600
    /\ camera.radius = 3600

\* C31: in every reachable state after install, with the module the only
\* writer of the binding, no recorded active mouse pointer implies that
\* the left-button binding of the controller is the pan code: the binding
\* is the rotate code only while a mouse pointer is recorded as active.
C31_NoActiveMouseImpliesPanBinding ==
    phase \in {"installed", "cleaned"} =>
        /\ state.activeMousePointerId = Null => controls.LEFT = MOUSE.PAN
        /\ controls.LEFT = MOUSE.ROTATE => state.activeMousePointerId \in MouseIds

\* the binding is pan again after a blur that followed a tilt gesture
C31_Witness ==
    /\ phase = "installed"
    /\ lastEvent.kind = "blur" /\ lastEvent.handled
    /\ state.activeMousePointerId = Null
    /\ state.shiftTilt.lastClientY # 0
    /\ controls.LEFT = MOUSE.PAN

\* C32: in every reachable state the mode TILT implies an active tilt
\* with a recorded pointer id and a disabled controller, and the mode
\* PINCH implies at least two ids in touchPointerIds.
C32_ModeIsBackedByBookkeeping ==
    /\ state.interactionMode = MODE_TILT
           => /\ state.shiftTilt.active
              /\ state.shiftTilt.pointerId # Null
              /\ ~controls.enabled
    /\ state.interactionMode = MODE_PINCH => Cardinality(state.touchPointerIds) >= 2

\* the mode is TILT during a tilt gesture, a touch contact being down
C32_Witness ==
    /\ state.interactionMode = MODE_TILT
    /\ state.shiftTilt.active /\ state.shiftTilt.pointerId = 1
    /\ ~controls.enabled
    /\ state.touchPointerIds # {}

\* C33: edit mode does not block the end of a gesture.  While the
\* edit-mode flag is active, a handled desktop pointer-up or cancel without
\* a pointer id or with the tilt pointer id ends an active tilt and enables
\* the controller, one with the id of the active mouse pointer or with
\* button 0 resets the left binding to pan, the up or cancel of a touch or
\* pen contact removes its id from touchPointerIds, and a handled blur ends
\* the tilt, enables the controller, empties touchPointerIds and resets the
\* binding: each as it does outside edit mode.
C33_EditModeDoesNotBlockRelease ==
    [][(editModeActive /\ lastEvent'.handled)
       => /\ lastEvent'.kind \in {"pointerup", "pointercancel"}
             => \A e \in GestureUps :
                    (DispatchPointerUp(e) \/ DispatchPointerCancel(e))
                    => IF isDesktopPointer(e.pointerType)
                       THEN /\ (/\ state.shiftTilt.active
                                /\ e.pointerId \in {Undefined, state.shiftTilt.pointerId})
                               => (~state'.shiftTilt.active /\ controls'.enabled)
                            /\ (e.pointerId = state.activeMousePointerId \/ e.button = 0)
                               => (/\ state'.activeMousePointerId = Null
                                   /\ controls'.LEFT = MOUSE.PAN)
                       ELSE state'.touchPointerIds = state.touchPointerIds \ {e.pointerId}
          /\ lastEvent'.kind = "blur"
             => /\ ~state'.shiftTilt.active /\ controls'.enabled
                /\ state'.touchPointerIds = {}
                /\ state'.activeMousePointerId = Null
                /\ controls'.LEFT = MOUSE.PAN]_vars

\* edit mode is on and a pointer-up has been handled after a tilt gesture,
\* which leaves the tilt ended, the controller enabled and the binding pan
C33_Witness ==
    /\ editModeActive
    /\ lastEvent.kind = "pointerup" /\ lastEvent.handled
    /\ ~state.shiftTilt.active /\ state.shiftTilt.lastClientY # 0
    /\ controls.enabled /\ controls.LEFT = MOUSE.PAN
    /\ state.touchPointerIds = {}

====
